---- MODULE Spec2Model ----
(***************************************************************************)
(* Model of the candidate analysis pipeline of cv-system: text             *)
(* normalisation (src/lib/text.ts), feature extraction                     *)
(* (src/lib/features.ts), scoring (src/lib/scoring.ts) and the ranking     *)
(* route that runs them.                                                   *)
(*                                                                         *)
(* Numbers.  The code computes on IEEE doubles.  The model computes on     *)
(* exact rationals <<n, d>> (d > 0, lowest terms); years are kept as       *)
(* rationals too.  Binary rounding error of doubles is not modelled.       *)
(***************************************************************************)
EXTENDS Integers, Sequences, FiniteSets, TLC

VARIABLES
    wIn,        \* normalizeWeights: the ScoringWeights argument
    wOut,       \* normalizeWeights: <<returned effective weights>>, <<>> before the call
    cv,         \* the normalized text of a candidate's CV: its lines
    roleSpec,   \* the role spec the ranking request loaded
    clock,      \* the wall clock: what new Date() returns now
    reads,      \* the values new Date() returned to the steps of extractFeatures so far
    features,   \* <<the bundle extractFeatures returned>>, <<>> before it returns
    result,     \* <<the ScoreResult of scoreCandidate>>, <<>> before it returns
    rawText,    \* normalizeText: the extracted text
    normalized, \* <<normalizeText(rawText)>>, <<>> before the call
    cached,     \* <<the text normalized again when read back from the cache>>
    matchText,  \* the matcher: the text of the CV, a sequence of characters
    aliasMap,   \* the matcher: the project's skillAliases
    fuse,       \* the matcher: what the Fuse index built over the lines answers
    matchOut,   \* <<the skill match and keyword hits of the text>>, <<>> before
    mergeIn,    \* mergeIntervals: the list of month intervals passed
    mergeOut,   \* <<the list mergeIntervals returned>>, <<>> before the call
    expIn,      \* scoreExperience: <<its arguments>>
    expOut,     \* <<the score scoreExperience returned>>, <<>> before the call
    yearIn,     \* yearTokenToNumber: <<the year token>>
    yearOut,    \* <<what yearTokenToNumber returned>>, <<>> before the call
    qualityIn,  \* calculateParseQuality: <<its arguments>>
    qualityOut, \* <<the ParseQuality and the warnings returned>>, <<>> before the call
    scoreIn,    \* scoreCandidate called on a feature bundle: <<its argument>>
    scoreOut,   \* <<the ScoreResult returned>>, <<>> before the call
    seniorityIn,  \* detectSeniority: <<the senior and junior scores it counted>>
    seniorityOut, \* <<the level and confidence it returned>>, <<>> before
    pushIn,     \* pushInterval: <<the start and end month index of a parsed range>>
    pushOut,    \* <<the list after pushInterval and its merged months>>, <<>> before
    scanPdfs,   \* the ranking route: scan.pdfs, the files of the role's folder
    cursor,     \* the ranking route: the number of files its loop has gone through
    candidates, \* the ranking route: the candidates pushed so far
    response,   \* <<the candidates of the response>>, <<>> before it is sent
    pdfFile,    \* the text cache: what extraction and OCR get from the candidate's PDF
    cacheRecord,  \* the text cache: <<the record of the candidate>>, <<>> when none
    lastRequest   \* <<what the last getCachedOrExtractedText did and returned>>

weightVars == <<wIn, wOut>>
analysisVars == <<cv, roleSpec, clock, reads, features, result>>
textVars == <<rawText, normalized, cached>>
matchVars == <<matchText, aliasMap, fuse, matchOut>>
intervalVars == <<mergeIn, mergeOut>>
experienceVars == <<expIn, expOut>>
yearVars == <<yearIn, yearOut>>
qualityVars == <<qualityIn, qualityOut>>
scoringVars == <<scoreIn, scoreOut>>
seniorityVars == <<seniorityIn, seniorityOut>>
pushVars == <<pushIn, pushOut>>
rankingVars == <<scanPdfs, cursor, candidates, response>>
cacheVars == <<pdfFile, cacheRecord, lastRequest>>
callVars == <<qualityVars, scoringVars, seniorityVars, pushVars, rankingVars, cacheVars>>
unitVars == <<matchVars, intervalVars, experienceVars, yearVars, callVars>>
vars == <<weightVars, analysisVars, textVars, unitVars>>

\* an optional value is <<>> (absent) or <<v>>
None == <<>>
Some(v) == <<v>>

\* the variables of a function that the specification at hand does not run
MatchIdle == matchText = <<>> /\ aliasMap = <<>> /\ fuse = <<>> /\ matchOut = <<>>
IntervalsIdle == mergeIn = <<>> /\ mergeOut = <<>>
ExperienceIdle == expIn = <<>> /\ expOut = <<>>
YearsIdle == yearIn = <<>> /\ yearOut = <<>>
QualityIdle == qualityIn = <<>> /\ qualityOut = <<>>
ScoringIdle == scoreIn = <<>> /\ scoreOut = <<>>
SeniorityIdle == seniorityIn = <<>> /\ seniorityOut = <<>>
PushIdle == pushIn = <<>> /\ pushOut = <<>>
RankingIdle == scanPdfs = <<>> /\ cursor = 0 /\ candidates = <<>> /\ response = <<>>
CacheIdle == pdfFile = <<>> /\ cacheRecord = <<>> /\ lastRequest = <<>>
CallsIdle ==
    QualityIdle /\ ScoringIdle /\ SeniorityIdle /\ PushIdle /\ RankingIdle /\ CacheIdle
UnitsIdle == MatchIdle /\ IntervalsIdle /\ ExperienceIdle /\ YearsIdle /\ CallsIdle

\* const x = v (and const x = v, y = w): the value is computed once and
\* then used by F
Let(v, F(_)) == CHOOSE r \in {F(x) : x \in {v}} : TRUE
Let2(v, w, F(_, _)) == CHOOSE r \in {F(x, y) : x \in {v}, y \in {w}} : TRUE

----------------------------------------------------------------------------
(* Bounds of the model                                                     *)

\* the largest magnitude of a configured weight
MaxWeight == 1

\* the most role lines a CV holds
MaxRoles == 2

\* the most month boundaries the wall clock passes during one analysis
MaxTicks == 1

\* the most characters of an extracted text
MaxTextLen == 5

----------------------------------------------------------------------------
(* Exact rational arithmetic                                               *)

Abs(n) == IF n < 0 THEN -n ELSE n

RECURSIVE Gcd(_, _)
Gcd(a, b) == IF b = 0 THEN a ELSE Let(a % b, LAMBDA r : Gcd(b, r))

\* the rational n/d in lowest terms with a positive denominator (d # 0)
Rat(n, d) ==
    Let2(n, d, LAMBDA x, y :
        Let(Gcd(Abs(x), Abs(y)), LAMBDA g :
            IF y < 0 THEN <<(-x) \div g, (-y) \div g>> ELSE <<x \div g, y \div g>>))

RInt(n) == <<n, 1>>
RAdd(a, b) == Let2(a, b, LAMBDA x, y : Rat(x[1] * y[2] + y[1] * x[2], x[2] * y[2]))
RSub(a, b) == Let2(a, b, LAMBDA x, y : Rat(x[1] * y[2] - y[1] * x[2], x[2] * y[2]))
RMul(a, b) == Let2(a, b, LAMBDA x, y : Rat(x[1] * y[1], x[2] * y[2]))
RDiv(a, b) == Let2(a, b, LAMBDA x, y : Rat(x[1] * y[2], x[2] * y[1]))
RLt(a, b) == Let2(a, b, LAMBDA x, y : x[1] * y[2] < y[1] * x[2])
RLe(a, b) == Let2(a, b, LAMBDA x, y : x[1] * y[2] <= y[1] * x[2])
RMin(a, b) == Let2(a, b, LAMBDA x, y : IF RLe(x, y) THEN x ELSE y)
RMax(a, b) == Let2(a, b, LAMBDA x, y : IF RLe(x, y) THEN y ELSE x)

\* Math.round of a rational: the nearest integer, halves towards +infinity
RRound(a) == Let(a, LAMBDA x : (2 * x[1] + x[2]) \div (2 * x[2]))

RECURSIVE SumFrom(_, _)
\* the sum of the rationals s[i], s[i + 1], ...
SumFrom(s, i) == IF i > Len(s) THEN RInt(0) ELSE RAdd(s[i], SumFrom(s, i + 1))

RSumSeq(s) == Let(s, LAMBDA v : SumFrom(v, 1))

----------------------------------------------------------------------------
(* JavaScript values that reach the scorer from the role spec JSON         *)

Num(n) == <<"number", n>>
Undefined == <<"undefined", 0>>

\* scoring.ts: safeNumber(n, fallback)
safeNumber(n, fallback) == Let(n, LAMBDA x : IF x[1] = "number" THEN x[2] ELSE fallback)

\* scoring.ts: clamp01 (on finite numbers)
clamp01(n) ==
    Let(n, LAMBDA x :
        IF RLe(x, RInt(0)) THEN RInt(0)
        ELSE IF RLe(RInt(1), x) THEN RInt(1)
        ELSE x)

----------------------------------------------------------------------------
(* Weight normalisation                                                    *)

WeightKeys ==
    <<"mustHaveSkills", "niceToHaveSkills", "experience", "skillDepth",
      "seniority", "recency", "projectScale", "education">>

WeightNames == {WeightKeys[i] : i \in 1..Len(WeightKeys)}

\* mustHaveSkills, niceToHaveSkills and experience are required numbers of
\* ScoringWeights; the other five are optional
OptionalWeightNames == {"skillDepth", "seniority", "recency", "projectScale", "education"}

\* the fixed default of normalizeWeights
DefaultWeights ==
    [mustHaveSkills |-> Rat(30, 100), niceToHaveSkills |-> Rat(10, 100),
     experience |-> Rat(20, 100), skillDepth |-> Rat(10, 100),
     seniority |-> Rat(10, 100), recency |-> Rat(8, 100),
     projectScale |-> Rat(8, 100), education |-> Rat(4, 100)]

\* the sum of the eight weights after safeNumber
WeightSum(weights) ==
    Let([k \in WeightNames |-> safeNumber(weights[k], 0)], LAMBDA w :
        w.mustHaveSkills + w.niceToHaveSkills + w.experience + w.skillDepth
        + w.seniority + w.recency + w.projectScale + w.education)

\* normalizeWeights with the three-weight default of the first scorer
\* ({0.7, 0.2, 0.1})
normalizeWeightsLegacyDefault(weights) ==
    Let2([k \in WeightNames |-> safeNumber(weights[k], 0)], WeightSum(weights),
         LAMBDA w, sum :
            IF sum <= 0
            THEN [k \in WeightNames |->
                     IF k = "mustHaveSkills" THEN <<7, 10>>
                     ELSE IF k = "niceToHaveSkills" THEN <<1, 5>>
                     ELSE IF k = "experience" THEN <<1, 10>>
                     ELSE RInt(0)]
            ELSE [k \in WeightNames |-> Rat(w[k], sum)])

normalizeWeights(weights) ==
    Let2([k \in WeightNames |-> safeNumber(weights[k], 0)], WeightSum(weights),
         LAMBDA w, sum :
            IF sum <= 0 THEN DefaultWeights
            ELSE [k \in WeightNames |-> Rat(w[k], sum)])

\* the sum of the eight effective weights
EffectiveSum(ew) ==
    RSumSeq([i \in 1..Len(WeightKeys) |-> ew[WeightKeys[i]]])

\* the weights a role spec may carry, in weight units: the three required
\* ones are numbers, the five optional ones numbers or absent
ScoringWeightsDomain ==
    {[k \in WeightNames |-> IF k \in OptionalWeightNames THEN o[k] ELSE r[k]] :
        r \in [WeightNames \ OptionalWeightNames -> {Num(n) : n \in -MaxWeight..MaxWeight}],
        o \in [OptionalWeightNames -> {Undefined, Num(-1), Num(0), Num(MaxWeight)}]}

----------------------------------------------------------------------------
(* Month intervals and date ranges (features.ts)                           *)
(*                                                                         *)
(* The text of a CV is modelled as a sequence of lines                     *)
(* "<title words> <date range>".  A line of at most five words looks like  *)
(* a heading to looksLikeSectionHeadingLine, so findBestTitleLine skips it *)
(* and the role takes its own line as title; a longer line is taken as a   *)
(* title.  A date range is written "YYYY - YYYY", "YYYY - present",        *)
(* "MM/YYYY - MM/YYYY" or "MM/YYYY - present" (two-digit months).          *)

\* the wall clock: new Date() gives getFullYear() and getMonth() + 1
Clock(y, m) == [year |-> y, month |-> m]

\* the date range "sm/sy - em/ey"; a month of 0 is a missing month, and
\* ey = 0 is the end token "present"
DateRange(sm, sy, em, ey) ==
    [sy |-> sy, sm |-> sm, ey |-> ey, em |-> em, present |-> (ey = 0)]

toMonthIndex(year, month) == year * 12 + (month - 1)

\* pushInterval counting the end month in, the interval closed
pushIntervalClosed(out, startIndex, endIndex) ==
    IF endIndex <= startIndex THEN out
    ELSE IF endIndex - startIndex > 12 * 50 THEN out
    ELSE Append(out, [start |-> startIndex, end |-> endIndex + 1])

\* pushInterval: the list with the interval appended unless it is empty,
\* reversed or wider than 50 years
pushInterval(out, startIndex, endIndex) ==
    IF endIndex <= startIndex THEN out
    ELSE IF endIndex - startIndex > 12 * 50 THEN out
    ELSE Append(out, [start |-> startIndex, end |-> endIndex])

\* [...list].sort(...) on one numeric field, ascending or descending: the
\* sort is stable, so an element goes after those that compare before it
\* and after the equal ones that precede it in the list
SortByKey(list, key, descending) ==
    Let(list, LAMBDA s :
        LET before(j, i) ==
                IF s[j][key] = s[i][key] THEN j < i
                ELSE IF descending THEN s[j][key] > s[i][key]
                ELSE s[j][key] < s[i][key]
        IN  [p \in 1..Len(s) |->
                s[CHOOSE i \in 1..Len(s) :
                    Cardinality({j \in 1..Len(s) : before(j, i)}) = p - 1]])

RECURSIVE MergeSorted(_, _, _)
\* the loop of mergeIntervals from the i-th interval of the sorted list on,
\* out being the result so far
MergeSorted(sorted, i, out) ==
    IF i > Len(sorted) THEN out
    ELSE Let(IF Len(out) = 0 \/ sorted[i].start > out[Len(out)].end
             THEN Append(out, sorted[i])
             ELSE [out EXCEPT ![Len(out)].end =
                       IF sorted[i].end > @ THEN sorted[i].end ELSE @],
             LAMBDA merged : MergeSorted(sorted, i + 1, merged))

\* mergeIntervals without its sort
mergeIntervalsUnsorted(intervals) == MergeSorted(intervals, 1, <<>>)

mergeIntervals(intervals) ==
    Let(SortByKey(intervals, "start", FALSE), LAMBDA sorted : MergeSorted(sorted, 1, <<>>))

RECURSIVE MonthsFrom(_, _)
\* the months of the intervals merged[i], merged[i + 1], ...
MonthsFrom(merged, i) ==
    IF i > Len(merged) THEN 0
    ELSE (merged[i].end - merged[i].start) + MonthsFrom(merged, i + 1)

\* merged.reduce((sum, i) => sum + (i.end - i.start), 0)
TotalMonths(merged) == Let(merged, LAMBDA m : MonthsFrom(m, 1))

\* yearTokenToNumber on a four-digit year: None when out of [1950, nowYear + 1]
yearToken4(y, nowYear) ==
    IF y >= 1950 /\ y <= nowYear + 1 THEN Some(y) ELSE None

\* yearTokenToNumber on a two-digit token, a token above the current
\* two-digit year going to the 1900s
yearToken2NoNextYear(yy, nowYear) ==
    Let(IF yy <= nowYear % 100 THEN 2000 + yy ELSE 1900 + yy, LAMBDA year :
        IF year < 1950 \/ year > nowYear + 1 THEN None ELSE Some(year))

\* yearTokenToNumber on a two-digit token yy
yearToken2(yy, nowYear) ==
    Let(IF yy <= (nowYear % 100) + 1 THEN 2000 + yy ELSE 1900 + yy, LAMBDA year :
        IF year < 1950 \/ year > nowYear + 1 THEN None ELSE Some(year))

\* extractYearRangeIntervals ending a "present" range at the current month,
\* the current month not counted
extractYearRangeIntervalsToNow(d, nowYear, nowMonth) ==
    Let(IF d.present THEN Some(nowYear)
        ELSE IF d.em = 0 THEN yearToken4(d.ey, nowYear)
        ELSE yearToken2(d.em, nowYear),
        LAMBDA endYear :
            IF endYear = None THEN <<>>
            ELSE IF d.sy < 1950 \/ d.sy > nowYear + 1 THEN <<>>
            ELSE IF endYear[1] < 1950 \/ endYear[1] > nowYear + 1 THEN <<>>
            ELSE IF endYear[1] < d.sy THEN <<>>
            ELSE pushInterval(<<>>, toMonthIndex(d.sy, 1),
                     IF d.present THEN toMonthIndex(nowYear, nowMonth)
                     ELSE toMonthIndex(endYear[1], 1)))

\* extractYearRangeIntervals on one date range.  The pattern "YYYY - <end>"
\* also matches inside "MM/YYYY - present" (the start month is lost) and
\* inside "MM/YYYY - MM/YYYY", where it reads the end month as a two-digit
\* year.
extractYearRangeIntervals(d, nowYear, nowMonth) ==
    Let(IF d.present THEN Some(nowYear)
        ELSE IF d.em = 0 THEN yearToken4(d.ey, nowYear)
        ELSE yearToken2(d.em, nowYear),
        LAMBDA endYear :
            IF endYear = None THEN <<>>
            ELSE IF d.sy < 1950 \/ d.sy > nowYear + 1 THEN <<>>
            ELSE IF endYear[1] < 1950 \/ endYear[1] > nowYear + 1 THEN <<>>
            ELSE IF endYear[1] < d.sy THEN <<>>
            ELSE pushInterval(<<>>, toMonthIndex(d.sy, 1),
                     IF d.present THEN toMonthIndex(nowYear, nowMonth) + 1
                     ELSE toMonthIndex(endYear[1], 1)))

\* extractMonthNumRangeIntervals on one date range: only "MM/YYYY - ..."
\* matches; the end month is inclusive
extractMonthNumRangeIntervals(d, nowYear, nowMonth) ==
    IF d.sm = 0 THEN <<>>
    ELSE IF yearToken4(d.sy, nowYear) = None THEN <<>>
    ELSE IF ~d.present /\ yearToken4(d.ey, nowYear) = None THEN <<>>
    ELSE Let2(toMonthIndex(d.sy, d.sm),
              IF d.present THEN toMonthIndex(nowYear, nowMonth) + 1
              ELSE toMonthIndex(d.ey, IF d.em = 0 THEN 12 ELSE d.em) + 1,
              LAMBDA startIndex, endIndex :
                 IF endIndex > startIndex
                 THEN pushInterval(<<>>, startIndex, endIndex)
                 ELSE pushInterval(<<>>, startIndex, startIndex + 1))

\* extractDateIntervals on the text of one date range, with the clock value
\* its new Date() returned
extractDateIntervals(d, now) ==
    extractYearRangeIntervals(d, now.year, now.month)
    \o extractMonthNumRangeIntervals(d, now.year, now.month)

RECURSIVE IntervalsFrom(_, _, _)
\* the intervals of the date ranges dates[i], dates[i + 1], ...
IntervalsFrom(dates, i, now) ==
    IF i > Len(dates) THEN <<>>
    ELSE extractDateIntervals(dates[i], now) \o IntervalsFrom(dates, i + 1, now)

\* extractDateIntervals on a text holding several date ranges
extractDateIntervalsOfBlock(dates, now) ==
    Let(dates, LAMBDA ds : IntervalsFrom(ds, 1, now))

\* monthsToYears: None is null; clamps at 50 and rounds to 0.1
monthsToYears(totalMonths) ==
    Let(totalMonths, LAMBDA months :
        IF months < 0 THEN None
        ELSE IF months > 50 * 12 THEN Some(RInt(50))
        ELSE Some(Rat(RRound(Rat(months * 10, 12)), 10)))

----------------------------------------------------------------------------
(* Role segmentation and years of experience (features.ts)                 *)
(*                                                                         *)
(* A line is [title |-> <<words>>, dates |-> <<date ranges>>]; words are   *)
(* lower-case and come from a vocabulary in which no word contains         *)
(* another, so that String.includes(term) is membership of the term in the *)
(* words of the text.                                                      *)

HasAnyWord(words, terms) == \E w \in {words} : \E i \in DOMAIN w : w[i] \in terms

\* the number of whitespace-separated words of a line ("YYYY - YYYY" and
\* "MM/YYYY - present" are three words each)
LineWordCount(line) == Len(line.title) + 3 * Len(line.dates)

\* looksLikeSectionHeadingLine on a line (mixed-case words, so the
\* upper-case ratio is below 0.7): at most five words
looksLikeSectionHeadingLine(line) == LineWordCount(line) <= 5

RECURSIVE allDates(_, _)
\* the date ranges of the lines i, i + 1, ... of a text, in text order
allDates(lines, i) ==
    IF i > Len(lines) THEN <<>> ELSE lines[i].dates \o allDates(lines, i + 1)

RECURSIVE allWords(_, _)
\* the words of the lines i, i + 1, ... of a text, in text order
allWords(lines, i) ==
    IF i > Len(lines) THEN <<>> ELSE lines[i].title \o allWords(lines, i + 1)

RECURSIVE findBestTitleLine(_, _)
\* the nearest line at or before index j that is neither heading-like nor
\* a skill list (a line of the model is never a skill list): None is "",
\* else Some(the words of that line)
findBestTitleLine(lines, j) ==
    IF j < 1 THEN None
    ELSE IF looksLikeSectionHeadingLine(lines[j]) THEN findBestTitleLine(lines, j - 1)
    ELSE Some(lines[j].title)

\* titleCandidates.find(non-empty) for the role opened by line i
roleTitle(lines, i) ==
    Let2(findBestTitleLine(lines, i - 1), findBestTitleLine(lines, i - 2),
         LAMBDA c1, c2 :
            IF c1 # None THEN c1[1] ELSE IF c2 # None THEN c2[1] ELSE lines[i].title)

\* whether a line holds a date interval, which makes it open a role
opensRole(line, now) == extractDateIntervalsOfBlock(line.dates, now) # <<>>

RECURSIVE blockEnd(_, _, _)
\* the last line of the text block that starts at line i: the lines after
\* i up to the next line that opens a role
blockEnd(lines, i, now) ==
    IF i + 1 > Len(lines) THEN i
    ELSE IF opensRole(lines[i + 1], now) THEN i
    ELSE blockEnd(lines, i + 1, now)

\* pushRole: <<>> when the block has no month, else <<the parsed role>>
pushRole(block, title, now) ==
    Let(block, LAMBDA b :
    Let(mergeIntervals(extractDateIntervalsOfBlock(allDates(b, 1), now)), LAMBDA merged :
    Let(TotalMonths(merged), LAMBDA months :
        IF months <= 0 THEN <<>>
        ELSE <<[title |-> title,
                startIndex |-> merged[1].start,
                endIndex |-> merged[Len(merged)].end,
                months |-> months,
                textBlock |-> allWords(b, 1)]>>)))

RECURSIVE rolesFrom(_, _, _)
\* the roles opened by the lines i, i + 1, ...
rolesFrom(lines, i, now) ==
    IF i > Len(lines) THEN <<>>
    ELSE (IF opensRole(lines[i], now)
          THEN pushRole(SubSeq(lines, i, blockEnd(lines, i, now)),
                        roleTitle(lines, i), now)
          ELSE <<>>)
         \o rolesFrom(lines, i + 1, now)

\* extractRolesFromExperience: every line holding a date interval opens a
\* role whose text block runs up to the next such line
extractRolesFromExperience(lines, now) == Let(lines, LAMBDA ls : rolesFrom(ls, 1, now))

isInternshipOrAcademicRoleText(words) ==
    HasAnyWord(words, {"stage", "stagiaire", "intern", "internship", "trainee",
                       "alternance", "apprentissage", "apprenti", "pfe", "sfe"})

isProfessionalRole(role) ==
    ~isInternshipOrAcademicRoleText(role.title \o role.textBlock)

extractProfessionalRoles(lines, now) ==
    SelectSeq(extractRolesFromExperience(lines, now), isProfessionalRole)

RECURSIVE professionalIntervals(_, _)
\* the [startIndex, endIndex) spans of the professional roles among
\* roles[i], roles[i + 1], ...
professionalIntervals(roles, i) ==
    IF i > Len(roles) THEN <<>>
    ELSE (IF isProfessionalRole(roles[i])
          THEN pushInterval(<<>>, roles[i].startIndex, roles[i].endIndex)
          ELSE <<>>)
         \o professionalIntervals(roles, i + 1)

estimateProfessionalYearsFromRoles(roles) ==
    Let(roles, LAMBDA rs :
    Let(professionalIntervals(rs, 1), LAMBDA intervals :
        IF Len(intervals) = 0 THEN Some(RInt(0))
        ELSE monthsToYears(TotalMonths(mergeIntervals(intervals)))))

\* estimateYearsExperience: the roles when there are any, else the date
\* intervals of the text (no "X years of experience" phrase in the text)
estimateYearsExperience(lines, now) ==
    Let(extractRolesFromExperience(lines, now), LAMBDA roles :
        IF Len(roles) > 0 THEN estimateProfessionalYearsFromRoles(roles)
        ELSE Let(extractDateIntervalsOfBlock(allDates(lines, 1), now), LAMBDA intervals :
            IF Len(intervals) = 0 THEN None
            ELSE IF isInternshipOrAcademicRoleText(allWords(lines, 1)) THEN Some(RInt(0))
            ELSE monthsToYears(TotalMonths(mergeIntervals(intervals)))))

----------------------------------------------------------------------------
(* Relevant experience, seniority (features.ts)                            *)

\* getFullYear() * 12 + getMonth()
nowMonthIndexOf(now) == now.year * 12 + (now.month - 1)

isRoleRelevant(role, relevanceKeywords) ==
    IF relevanceKeywords = {} THEN TRUE
    ELSE HasAnyWord(role.title \o role.textBlock, relevanceKeywords)

getRoleRecency(role, now) ==
    Let(nowMonthIndexOf(now) - role.endIndex, LAMBDA monthsAgo :
        IF monthsAgo <= 1 THEN "current"
        ELSE IF monthsAgo <= 24 THEN "recent"
        ELSE "old")

RECURSIVE relevantMonthsOf(_, _)
\* the sum of the months of the relevant roles among parsedRoles[i], ...
relevantMonthsOf(parsedRoles, i) ==
    IF i > Len(parsedRoles) THEN 0
    ELSE (IF parsedRoles[i].isRelevant THEN parsedRoles[i].months ELSE 0)
         + relevantMonthsOf(parsedRoles, i + 1)

\* extractRelevantExperience; nowRoles, nowYears and nowRecency are the
\* clock values read while parsing the roles, while estimating the total
\* years and while tagging the recency of the roles
extractRelevantExperience(lines, relevanceKeywords, nowRoles, nowYears, nowRecency) ==
    Let2(extractProfessionalRoles(lines, nowRoles), estimateYearsExperience(lines, nowYears),
         LAMBDA roles, totalYears :
    Let([i \in 1..Len(roles) |->
            [title |-> roles[i].title,
             isRelevant |-> isRoleRelevant(roles[i], relevanceKeywords),
             months |-> roles[i].months,
             recency |-> getRoleRecency(roles[i], nowRecency)]],
        LAMBDA parsedRoles :
    Let(relevantMonthsOf(parsedRoles, 1), LAMBDA relevantMonths :
        IF Len(roles) = 0
        THEN [totalYears |-> totalYears,
              relevantYears |-> IF relevanceKeywords = {} THEN totalYears ELSE None,
              roles |-> <<>>]
        ELSE [totalYears |-> totalYears,
              relevantYears |->
                  IF relevantMonths > 0
                  THEN Some(Rat(RRound(Rat(relevantMonths * 10, 12)), 10))
                  ELSE Some(RInt(0)),
              roles |-> parsedRoles])))

\* DEFAULT_SENIORITY_INDICATORS
SeniorityIndicators ==
    [senior |-> {"senior", "sr.", "sr ", "lead", "principal", "staff", "architect",
                 "chef", "responsable", "head", "manager", "director"},
     junior |-> {"junior", "jr.", "jr ", "entry", "debutant", "trainee", "stagiaire",
                 "intern", "stage", "apprenti", "graduate"}]

\* the number of indicator terms the text includes (each term counts once)
IndicatorHits(words, terms) == Cardinality({t \in terms : HasAnyWord(words, {t})})

\* /\b(team\s*lead|tech\s*lead|technical\s*lead)\b/ inside a line
hasLeadPhrase(lines) ==
    \E k \in DOMAIN lines : \E i \in 1..(Len(lines[k].title) - 1) :
        /\ lines[k].title[i] \in {"team", "tech", "technical"}
        /\ lines[k].title[i + 1] = "lead"

\* /\b(\d+)\s*(team\s*members?|developers?|engineers?)/: the digits of a
\* year that ends a line, then the first word of the next line
hasHeadcountPhrase(lines) ==
    \E k \in 1..(Len(lines) - 1) :
        /\ Len(lines[k].dates) > 0
        /\ ~lines[k].dates[Len(lines[k].dates)].present
        /\ Len(lines[k + 1].title) > 0
        /\ lines[k + 1].title[1] \in {"developer", "developers", "engineer", "engineers"}

\* detectSeniority with a junior confidence that starts from 0.6
seniorityFromScoresSureJunior(seniorScore, juniorScore) ==
    Let(seniorScore - juniorScore, LAMBDA netScore :
        IF netScore >= 3
        THEN [level |-> "senior",
              confidence |-> RMin(RAdd(<<1, 2>>, Rat(netScore, 10)), <<19, 20>>)]
        ELSE IF netScore >= 1
        THEN [level |-> "mid", confidence |-> RAdd(<<1, 2>>, Rat(netScore, 10))]
        ELSE IF netScore <= -1
        THEN [level |-> "junior",
              confidence |-> RMin(RAdd(<<3, 5>>, Rat(Abs(netScore), 10)), <<9, 10>>)]
        ELSE [level |-> "unknown", confidence |-> <<3, 10>>])

\* the level and confidence detectSeniority derives from its two scores
seniorityFromScores(seniorScore, juniorScore) ==
    Let(seniorScore - juniorScore, LAMBDA netScore :
        IF netScore >= 3
        THEN [level |-> "senior",
              confidence |-> RMin(RAdd(<<1, 2>>, Rat(netScore, 10)), <<19, 20>>)]
        ELSE IF netScore >= 1
        THEN [level |-> "mid", confidence |-> RAdd(<<1, 2>>, Rat(netScore, 10))]
        ELSE IF netScore <= -1
        THEN [level |-> "junior",
              confidence |-> RMin(RAdd(<<1, 2>>, Rat(Abs(netScore), 10)), <<9, 10>>)]
        ELSE [level |-> "unknown", confidence |-> <<3, 10>>])

detectSeniority(lines, now) ==
    Let2(allWords(lines, 1), estimateYearsExperience(lines, now), LAMBDA words, years :
        LET seniorYears == IF years = None THEN 0
                           ELSE IF RLe(RInt(5), years[1]) THEN 2
                           ELSE IF RLe(RInt(3), years[1]) THEN 1
                           ELSE 0
            juniorYears == IF years # None /\ RLt(years[1], RInt(2)) THEN 1 ELSE 0
            seniorScore ==
                IndicatorHits(words, SeniorityIndicators.senior) + seniorYears
                + (IF HasAnyWord(words, {"led", "managed", "architected", "designed",
                                         "mentored", "trained"})
                   THEN 1 ELSE 0)
                + (IF hasLeadPhrase(lines) THEN 2 ELSE 0)
                + (IF hasHeadcountPhrase(lines) THEN 1 ELSE 0)
            juniorScore == IndicatorHits(words, SeniorityIndicators.junior) + juniorYears
        IN  seniorityFromScores(seniorScore, juniorScore))

----------------------------------------------------------------------------
(* Recency analysis (features.ts)                                          *)

RECURSIVE firstRoleWithTerm(_, _, _)
\* the first of roles[i], roles[i + 1], ... whose title or text block
\* includes a term
firstRoleWithTerm(roles, i, terms) ==
    IF i > Len(roles) THEN None
    ELSE IF HasAnyWord(roles[i].title \o roles[i].textBlock, terms) THEN Some(roles[i])
    ELSE firstRoleWithTerm(roles, i + 1, terms)

\* getSkillLastUsedYear: None is null
getSkillLastUsedYear(lines, terms, now) ==
    Let(SortByKey(extractProfessionalRoles(lines, now), "endIndex", TRUE), LAMBDA sorted :
    Let(firstRoleWithTerm(sorted, 1, terms), LAMBDA hit :
        IF hit = None THEN None
        ELSE Let(hit[1].endIndex \div 12, LAMBDA endYear :
                Some(IF endYear < now.year THEN endYear ELSE now.year))))

categorizeRecency(lastUsedYear, now) ==
    IF lastUsedYear = None THEN [category |-> "unknown", multiplier |-> <<7, 10>>]
    ELSE Let(now.year - lastUsedYear[1], LAMBDA yearsAgo :
            IF yearsAgo <= 1 THEN [category |-> "current", multiplier |-> RInt(1)]
            ELSE IF yearsAgo <= 3 THEN [category |-> "recent", multiplier |-> <<17, 20>>]
            ELSE IF yearsAgo <= 5 THEN [category |-> "stale", multiplier |-> <<3, 5>>]
            ELSE [category |-> "old", multiplier |-> <<3, 10>>])

getRoleLevel(title) ==
    IF HasAnyWord(title, {"senior", "sr.", "lead", "principal", "staff", "architect",
                          "head", "director", "manager"}) THEN 3
    ELSE IF HasAnyWord(title, {"junior", "jr.", "intern", "stagiaire", "trainee",
                               "entry", "graduate"}) THEN 1
    ELSE 2

detectCareerTrajectory(lines, now) ==
    Let(SortByKey(extractProfessionalRoles(lines, now), "startIndex", FALSE),
        LAMBDA sortedRoles :
    Let([i \in 1..Len(sortedRoles) |-> getRoleLevel(sortedRoles[i].title)], LAMBDA levels :
        LET ascending == Cardinality({i \in 2..Len(levels) : levels[i] > levels[i - 1]})
            descending == Cardinality({i \in 2..Len(levels) : levels[i] < levels[i - 1]})
            recentLevel == levels[Len(levels)]
        IN  IF Len(sortedRoles) < 2
            THEN [trajectory |-> "unclear", recentRoleLevel |-> "unknown"]
            ELSE [trajectory |->
                      IF ascending > descending /\ ascending >= 1 THEN "ascending"
                      ELSE IF descending > ascending /\ descending >= 1 THEN "descending"
                      ELSE IF Len(levels) >= 3 THEN "stable"
                      ELSE "unclear",
                  recentRoleLevel |->
                      IF recentLevel >= 3 THEN "senior"
                      ELSE IF recentLevel = 1 THEN "junior" ELSE "mid"]))

\* the terms of a skill: its name and its project aliases
SkillTerms(skill, skillAliases) ==
    {skill} \cup (IF skill \in DOMAIN skillAliases THEN skillAliases[skill] ELSE {})

\* analyzeRecency; nowRoles is the clock read while parsing roles and
\* nowCategory the one read by categorizeRecency
analyzeRecency(lines, skills, skillAliases, nowRoles, nowCategory) ==
    Let2([i \in 1..Len(skills) |->
            Let(getSkillLastUsedYear(lines, SkillTerms(skills[i].skill, skillAliases),
                                     nowRoles),
                LAMBDA lastUsedYear :
            Let(categorizeRecency(lastUsedYear, nowCategory), LAMBDA c :
                [skill |-> skills[i].skill,
                 lastUsedYear |-> lastUsedYear,
                 recencyCategory |-> c.category,
                 recencyMultiplier |-> c.multiplier]))],
         detectCareerTrajectory(lines, nowRoles),
         LAMBDA skillRecency, careerTrajectory :
    Let(SelectSeq(skillRecency, LAMBDA r : r.recencyCategory # "unknown"), LAMBDA valid :
        LET avgMultiplier ==
                IF Len(valid) > 0
                THEN RDiv(RSumSeq([i \in 1..Len(valid) |-> valid[i].recencyMultiplier]),
                          RInt(Len(valid)))
                ELSE <<7, 10>>
            trajectoryBonus ==
                IF careerTrajectory.trajectory = "ascending" THEN <<1, 10>>
                ELSE IF careerTrajectory.trajectory = "descending" THEN <<-3, 20>>
                ELSE RInt(0)
        IN  [skillRecency |-> skillRecency,
             careerTrajectory |-> careerTrajectory,
             recencyScore |->
                 RMax(RInt(0), RMin(RInt(1), RAdd(avgMultiplier, trajectoryBonus)))]))

----------------------------------------------------------------------------
(* Red flags (features.ts)                                                 *)

RedFlag(type, severity, penalty) ==
    [type |-> type, severity |-> severity, penalty |-> penalty]

\* extractRolesWithDates
extractRolesWithDates(lines, now) ==
    Let(extractProfessionalRoles(lines, now), LAMBDA roles :
        [i \in 1..Len(roles) |->
            [title |-> roles[i].title,
             startMonthIndex |-> roles[i].startIndex,
             endMonthIndex |-> roles[i].endIndex,
             durationMonths |-> roles[i].months]])

\* detectJobHopping counting the short stints of all the roles, the old
\* ones included
detectJobHoppingAllRoles(roles, now) ==
    Let(Cardinality({i \in DOMAIN roles :
                        roles[i].durationMonths < 12 /\ roles[i].durationMonths > 0}),
        LAMBDA shortStints :
        IF shortStints >= 3 THEN <<RedFlag("job_hopping", "high", 10)>>
        ELSE IF shortStints = 2 THEN <<RedFlag("job_hopping", "medium", 5)>>
        ELSE <<>>)

detectJobHopping(roles, now) ==
    Let(nowMonthIndexOf(now), LAMBDA nowMonthIndex :
    Let(Cardinality({i \in DOMAIN roles :
                        /\ nowMonthIndex - roles[i].endMonthIndex < 60
                        /\ roles[i].durationMonths < 12 /\ roles[i].durationMonths > 0}),
        LAMBDA shortStints :
        IF shortStints >= 3 THEN <<RedFlag("job_hopping", "high", 10)>>
        ELSE IF shortStints = 2 THEN <<RedFlag("job_hopping", "medium", 5)>>
        ELSE <<>>))

RECURSIVE gapFlags(_, _)
\* the loop of detectEmploymentGaps over the roles sorted by end date
gapFlags(sorted, i) ==
    IF i > Len(sorted) THEN <<>>
    ELSE Let(sorted[i].startMonthIndex - sorted[i - 1].endMonthIndex, LAMBDA gapMonths :
             (IF gapMonths > 24 THEN <<RedFlag("employment_gap", "high", 8)>>
              ELSE IF gapMonths > 12 THEN <<RedFlag("employment_gap", "medium", 4)>>
              ELSE <<>>)
             \o gapFlags(sorted, i + 1))

detectEmploymentGaps(roles) ==
    IF Len(roles) < 2 THEN <<>>
    ELSE Let(SortByKey(roles, "endMonthIndex", FALSE), LAMBDA sorted : gapFlags(sorted, 2))

\* detectTitleInflation; totalYears is estimateYearsExperience(text)
detectTitleInflation(totalYears, roles) ==
    IF totalYears = None THEN <<>>
    ELSE Let2(\E i \in DOMAIN roles :
                  HasAnyWord(roles[i].title,
                             {"senior", "sr.", "lead", "principal", "staff", "architect"}),
              \E i \in DOMAIN roles :
                  HasAnyWord(roles[i].title,
                             {"lead", "principal", "architect", "head", "director"}),
              LAMBDA hasSeniorTitle, hasLeadershipTitle :
             (IF hasSeniorTitle /\ RLt(totalYears[1], RInt(2))
              THEN <<RedFlag("title_inflation", "high", 10)>>
              ELSE IF hasSeniorTitle /\ RLt(totalYears[1], RInt(3))
              THEN <<RedFlag("title_inflation", "medium", 5)>>
              ELSE <<>>)
             \o (IF hasLeadershipTitle /\ RLt(totalYears[1], RInt(4))
                 THEN <<RedFlag("title_inflation", "high", 8)>>
                 ELSE <<>>))

RECURSIVE regressionFlags(_, _)
\* the loop of detectCareerRegression over the roles sorted by start date
regressionFlags(sorted, i) ==
    IF i > Len(sorted) THEN <<>>
    ELSE (IF /\ HasAnyWord(sorted[i - 1].title,
                            {"senior", "lead", "principal", "staff", "architect",
                             "head", "director"})
             /\ HasAnyWord(sorted[i].title, {"junior", "intern", "trainee", "entry"})
          THEN <<RedFlag("career_regression", "medium", 5)>>
          ELSE <<>>)
         \o regressionFlags(sorted, i + 1)

detectCareerRegression(roles) ==
    IF Len(roles) < 2 THEN <<>>
    ELSE Let(SortByKey(roles, "startMonthIndex", FALSE),
             LAMBDA sorted : regressionFlags(sorted, 2))

RECURSIVE SumPenalties(_, _)
\* allFlags.reduce((sum, f) => sum + f.penalty, 0), from flags[i] on
SumPenalties(flags, i) ==
    IF i > Len(flags) THEN 0 ELSE flags[i].penalty + SumPenalties(flags, i + 1)

\* the sum of the penalties without its cap
capPenaltyUncapped(sum) == sum

\* Math.min(25, sum of the penalties)
capPenalty(sum) == IF sum < 25 THEN sum ELSE 25

\* detectRedFlags; nowRoles, nowHopping and nowYears are the clock values
\* read while parsing the roles, by detectJobHopping and by the
\* estimateYearsExperience call of detectTitleInflation
detectRedFlags(lines, nowRoles, nowHopping, nowYears) ==
    Let2(extractRolesWithDates(lines, nowRoles), estimateYearsExperience(lines, nowYears),
         LAMBDA roles, totalYears :
    Let(detectJobHopping(roles, nowHopping)
            \o detectEmploymentGaps(roles)
            \o detectTitleInflation(totalYears, roles)
            \o detectCareerRegression(roles),
        LAMBDA allFlags :
    Let(SumPenalties(allFlags, 1), LAMBDA sum :
        [flags |-> allFlags, totalPenalty |-> capPenalty(sum)])))

----------------------------------------------------------------------------
(* Skill matching, skill depth, project scale, education (features.ts)     *)
(*                                                                         *)
(* Skill names are words of the text, so the exact pass of matchSkill is   *)
(* word membership; no word of the vocabulary is within the fuzzy          *)
(* threshold of another.  The evidence snippets are not modelled here.     *)

matchSkill(words, spec, skillAliases) ==
    [skill |-> spec.skill,
     weight |-> spec.weight,
     matched |-> HasAnyWord(words, SkillTerms(spec.skill, skillAliases))]

\* countSkillMentions: the occurrences of the terms in the text
countSkillMentions(words, terms) ==
    Cardinality({i \in DOMAIN words : words[i] \in terms})

\* assessContextQuality: the texts of the model are shorter than its
\* 200-character window, so the context of a mention is the whole text
assessContextQuality(words, terms) ==
    IF ~HasAnyWord(words, terms) THEN "low"
    ELSE IF HasAnyWord(words,
                {"production", "enterprise", "platform", "system", "architecture",
                 "led", "architected", "designed", "built", "developed",
                 "implemented", "scaled", "optimized", "saas", "b2b", "b2c",
                 "startup", "company", "organization"}) THEN "high"
    ELSE IF HasAnyWord(words,
                {"project", "application", "feature", "integration", "module",
                 "component", "service", "api"}) THEN "medium"
    ELSE "low"

\* isSkillInRecentRole, over the roles already parsed
isSkillInRecentRole(roles, terms, nowRecency) ==
    \E i \in DOMAIN roles :
        /\ getRoleRecency(roles[i], nowRecency) # "old"
        /\ HasAnyWord(roles[i].textBlock, terms)

calculateSkillDepth(lines, skills, skillAliases, nowRoles, nowRecency) ==
    Let2(allWords(lines, 1), extractProfessionalRoles(lines, nowRoles), LAMBDA words, roles :
        [i \in 1..Len(skills) |->
            Let(SkillTerms(skills[i].skill, skillAliases), LAMBDA terms :
            Let([mentionCount |-> countSkillMentions(words, terms),
                 \* the text has no Experience heading: the whole text is scanned
                 inExperienceSection |-> HasAnyWord(words, terms),
                 inRecentRole |-> isSkillInRecentRole(roles, terms, nowRecency),
                 contextQuality |-> assessContextQuality(words, terms)],
                LAMBDA d :
                [skill |-> skills[i].skill,
                 mentionCount |-> d.mentionCount,
                 inExperienceSection |-> d.inExperienceSection,
                 inRecentRole |-> d.inRecentRole,
                 contextQuality |-> d.contextQuality,
                 depthScore |->
                     RMin(RSumSeq(<<RMul(RMin(Rat(d.mentionCount, 5), RInt(1)), <<3, 10>>),
                                    IF d.inExperienceSection THEN <<1, 5>> ELSE RInt(0),
                                    IF d.inRecentRole THEN <<1, 5>> ELSE RInt(0),
                                    IF d.contextQuality = "high" THEN <<3, 10>>
                                    ELSE IF d.contextQuality = "medium" THEN <<3, 20>>
                                    ELSE RInt(0)>>),
                          RInt(1))]))])

\* extractTeamSize: /(\d{1,3})\s*(?:...|developers?|engineers?|...)/ takes
\* the last three digits of a year that ends a line when the next line
\* starts with such a word; the other phrasings are not in the vocabulary
extractTeamSize(lines) ==
    Let({n \in {lines[k].dates[Len(lines[k].dates)].ey % 1000 :
                   k \in {j \in 1..(Len(lines) - 1) :
                             hasHeadcountPhrase(SubSeq(lines, j, j + 1))}} :
            n > 0 /\ n < 500},
        LAMBDA counted :
        IF counted = {} THEN None
        ELSE Some(CHOOSE n \in counted : \A other \in counted : other <= n))

\* analyzeProjectScale; no user-count phrase is in the vocabulary, so
\* maxUserScale is null
analyzeProjectScale(lines) ==
    Let2(allWords(lines, 1), extractTeamSize(lines), LAMBDA words, maxTeamSize :
    Let2((IF HasAnyWord(words, {"enterprise", "multinational", "corporate", "bank",
                                "banking", "insurance", "telecom", "healthcare"})
          THEN {"enterprise"} ELSE {})
         \cup (IF HasAnyWord(words, {"startup", "seed"}) THEN {"startup"} ELSE {}),
         {label \in {"production", "saas", "b2b", "b2c", "platform", "microservices",
                     "scaled"} : HasAnyWord(words, {label})},
         LAMBDA companyTypes, impactIndicators :
        [maxUserScale |-> None,
         maxTeamSize |-> maxTeamSize,
         companyTypes |-> companyTypes,
         impactIndicators |-> impactIndicators,
         scaleScore |->
             RMin(RInt(1),
                  RSumSeq(<<<<3, 10>>,
                            IF maxTeamSize = None THEN RInt(0)
                            ELSE IF maxTeamSize[1] >= 20 THEN <<1, 5>>
                            ELSE IF maxTeamSize[1] >= 10 THEN <<3, 20>>
                            ELSE IF maxTeamSize[1] >= 5 THEN <<1, 10>>
                            ELSE RInt(0),
                            IF "enterprise" \in companyTypes THEN <<1, 10>>
                            ELSE IF "startup" \in companyTypes THEN <<1, 20>>
                            ELSE RInt(0),
                            RMin(<<1, 10>>, Rat(Cardinality(impactIndicators) * 2, 100))>>))]))

\* analyzeEducation: the text has no Education heading, so the degrees are
\* looked for in the whole text, and a text this short is the one context of
\* every degree: all degrees share their field and the highest rank wins.
\* "pmp" is the one certificate of the vocabulary.
analyzeEducation(lines) ==
    Let(allWords(lines, 1), LAMBDA words :
        LET degreeScore ==
                IF HasAnyWord(words, {"phd", "doctorate", "doctorat"}) THEN RInt(1)
                ELSE IF HasAnyWord(words, {"master", "msc", "mba"}) THEN <<9, 10>>
                ELSE IF HasAnyWord(words, {"bachelor", "bsc", "licence", "undergraduate"})
                     THEN <<4, 5>>
                ELSE IF HasAnyWord(words, {"associate", "bts", "dut", "deug"}) THEN <<3, 5>>
                ELSE IF HasAnyWord(words, {"bootcamp", "gomycode", "ironhack", "rbk"})
                     THEN <<11, 20>>
                ELSE <<1, 2>>
            relevantCerts == IF HasAnyWord(words, {"pmp"}) THEN 1 ELSE 0
        IN  [educationScore |-> RMin(RInt(1), RAdd(degreeScore, Rat(relevantCerts * 5, 100)))])

\* extractFeatures.  params holds the text (its lines), the role's skill
\* lists and relevance keywords and the project's aliases; at.<step> is the
\* value new Date() returns to the calls made by that step of the function
\* (keyword hits, parse quality and warnings are not part of the bundle here)
extractFeatures(params, at) ==
    Let2(params.text, allWords(params.text, 1), LAMBDA lines, words :
    Let(params.mustHaveSkills \o params.niceToHaveSkills, LAMBDA allSkills :
        [mustHave |->
             [i \in 1..Len(params.mustHaveSkills) |->
                 matchSkill(words, params.mustHaveSkills[i], params.skillAliases)],
         niceToHave |->
             [i \in 1..Len(params.niceToHaveSkills) |->
                 matchSkill(words, params.niceToHaveSkills[i], params.skillAliases)],
         yearsExperience |-> estimateYearsExperience(lines, at.yearsExperience),
         relevantExperience |->
             extractRelevantExperience(lines, params.experienceRelevanceKeywords,
                 at.relevantExperience, at.relevantExperience, at.relevantExperience),
         skillDepth |->
             calculateSkillDepth(lines, allSkills, params.skillAliases,
                 at.skillDepth, at.skillDepth),
         seniority |-> detectSeniority(lines, at.seniority),
         recencyAnalysis |->
             analyzeRecency(lines, allSkills, params.skillAliases,
                 at.recencyAnalysis, at.recencyAnalysis),
         redFlags |-> detectRedFlags(lines, at.redFlags, at.redFlags, at.redFlags),
         projectScale |-> analyzeProjectScale(lines),
         education |-> analyzeEducation(lines)]))

----------------------------------------------------------------------------
(* Component scores (scoring.ts)                                           *)

RECURSIVE SumWeights(_, _, _)
\* matches.reduce(...) from matches[i] on: the sum of safeNumber(weight)
\* over the matches, over the matched ones only when onlyMatched
SumWeights(matches, i, onlyMatched) ==
    IF i > Len(matches) THEN 0
    ELSE (IF onlyMatched /\ ~matches[i].matched THEN 0
          ELSE safeNumber(matches[i].weight, 0))
         + SumWeights(matches, i + 1, onlyMatched)

scoreSkills(matches) ==
    Let2(SumWeights(matches, 1, FALSE), SumWeights(matches, 1, TRUE), LAMBDA total, matched :
        IF total <= 0 THEN RInt(1) ELSE clamp01(Rat(matched, total)))

\* the experience score as a plain ratio: min(1, candidateYears /
\* minYearsExperience), and 1/2 when the years are unknown
scoreExperienceRatio(candidateYears, minYearsExperience) ==
    IF RLe(minYearsExperience, RInt(0)) THEN RInt(1)
    ELSE IF candidateYears = None THEN <<1, 2>>
    ELSE RMin(RInt(1), RDiv(candidateYears[1], minYearsExperience))

\* candidateYears is None (null) or Some(years); minYearsExperience a rational
scoreExperience(candidateYears, minYearsExperience) ==
    IF RLe(minYearsExperience, RInt(0)) THEN RInt(1)
    ELSE IF candidateYears = None THEN RInt(0)
    ELSE Let(RDiv(candidateYears[1], minYearsExperience), LAMBDA ratio :
             IF RLe(<<3, 2>>, ratio) THEN RInt(1)
             ELSE IF RLe(RInt(1), ratio)
                  THEN RAdd(<<4, 5>>, RMul(RSub(ratio, RInt(1)), <<2, 5>>))
             ELSE IF RLe(<<3, 5>>, ratio)
                  THEN RAdd(<<2, 5>>, RMul(RSub(ratio, <<3, 5>>), RInt(1)))
             ELSE RMul(ratio, <<67, 100>>))

scoreRelevantExperience(relevantExp, minYearsExperience) ==
    IF relevantExp.relevantYears = None
    THEN scoreExperience(relevantExp.totalYears, minYearsExperience)
    ELSE LET baseScore == scoreExperience(relevantExp.relevantYears, minYearsExperience)
             hasCurrentRelevant ==
                 \E i \in DOMAIN relevantExp.roles :
                    relevantExp.roles[i].isRelevant /\ relevantExp.roles[i].recency = "current"
             hasRecentRelevant ==
                 \E i \in DOMAIN relevantExp.roles :
                    relevantExp.roles[i].isRelevant /\ relevantExp.roles[i].recency = "recent"
             bonus == IF hasCurrentRelevant THEN <<1, 10>>
                      ELSE IF hasRecentRelevant THEN <<1, 20>>
                      ELSE RInt(0)
         IN  clamp01(RAdd(baseScore, bonus))

scoreSkillDepth(skillDepthResults) ==
    IF Len(skillDepthResults) = 0 THEN <<1, 2>>
    ELSE LET n == Len(skillDepthResults)
             totalDepth == RSumSeq([i \in 1..n |-> skillDepthResults[i].depthScore])
             avgDepth == RDiv(totalDepth, RInt(n))
             highQualityCount ==
                 Cardinality({i \in 1..n : skillDepthResults[i].contextQuality = "high"})
             highQualityRatio == Rat(highQualityCount, n)
         IN  clamp01(RAdd(RMul(avgDepth, <<7, 10>>), RMul(highQualityRatio, <<3, 10>>)))

scoreSeniority(seniority, minYearsExperience) ==
    LET isSeniorRole == RLe(RInt(5), minYearsExperience)
        isMidRole == RLe(RInt(3), minYearsExperience) /\ RLt(minYearsExperience, RInt(5))
        conf == seniority.confidence
        level == seniority.level
    IN  IF isSeniorRole THEN
            CASE level = "senior" -> RAdd(<<9, 10>>, RMul(conf, <<1, 10>>))
              [] level = "mid" -> RAdd(<<1, 2>>, RMul(conf, <<1, 5>>))
              [] level = "junior" -> RSub(<<1, 5>>, RMul(conf, <<1, 10>>))
              [] OTHER -> <<2, 5>>
        ELSE IF isMidRole THEN
            CASE level = "senior" -> <<17, 20>>
              [] level = "mid" -> RAdd(<<4, 5>>, RMul(conf, <<1, 5>>))
              [] level = "junior" -> RSub(<<2, 5>>, RMul(conf, <<1, 10>>))
              [] OTHER -> <<1, 2>>
        ELSE
            CASE level = "senior" -> <<3, 5>>
              [] level = "mid" -> <<4, 5>>
              [] level = "junior" -> <<9, 10>>
              [] OTHER -> <<1, 2>>

\* scoreRecency returning the adjusted score as it is, not clamped
scoreRecencyUnclamped(recencyAnalysis) ==
    Let(recencyAnalysis.skillRecency, LAMBDA sr :
        LET base == recencyAnalysis.recencyScore
            traj == recencyAnalysis.careerTrajectory.trajectory
            adjusted ==
                CASE traj = "ascending" -> RAdd(base, <<1, 10>>)
                  [] traj = "descending" -> RSub(base, <<3, 20>>)
                  [] traj = "stable" -> base
                  [] traj = "unclear" -> RSub(base, <<1, 20>>)
                  [] OTHER -> base
            currentSkills ==
                Cardinality({i \in DOMAIN sr : sr[i].recencyCategory \in {"current", "recent"}})
            totalSkills == Len(sr)
        IN  (IF totalSkills > 0
                    THEN RAdd(RMul(adjusted, <<7, 10>>),
                              RMul(Rat(currentSkills, totalSkills), <<3, 10>>))
                    ELSE adjusted))

scoreRecency(recencyAnalysis) ==
    Let(recencyAnalysis.skillRecency, LAMBDA sr :
        LET base == recencyAnalysis.recencyScore
            traj == recencyAnalysis.careerTrajectory.trajectory
            adjusted ==
                CASE traj = "ascending" -> RAdd(base, <<1, 10>>)
                  [] traj = "descending" -> RSub(base, <<3, 20>>)
                  [] traj = "stable" -> base
                  [] traj = "unclear" -> RSub(base, <<1, 20>>)
                  [] OTHER -> base
            currentSkills ==
                Cardinality({i \in DOMAIN sr : sr[i].recencyCategory \in {"current", "recent"}})
            totalSkills == Len(sr)
        IN  clamp01(IF totalSkills > 0
                    THEN RAdd(RMul(adjusted, <<7, 10>>),
                              RMul(Rat(currentSkills, totalSkills), <<3, 10>>))
                    ELSE adjusted))

scoreProjectScale(projectScale) == projectScale.scaleScore

scoreEducation(education, minYearsExperience) ==
    IF RLe(RInt(5), minYearsExperience)
    THEN RAdd(<<1, 2>>, RMul(education.educationScore, <<3, 10>>))
    ELSE IF RLe(RInt(3), minYearsExperience)
    THEN RAdd(<<2, 5>>, RMul(education.educationScore, <<2, 5>>))
    ELSE RAdd(<<3, 10>>, RMul(education.educationScore, <<1, 2>>))

----------------------------------------------------------------------------
(* scoreCandidate (scoring.ts)                                             *)

\* a threshold reason: the rule that pushed it and the values interpolated
\* into its message
Reason(rule, names, nums) == [rule |-> rule, names |-> names, nums |-> nums]

\* hardFilters: an optional number is None or Some(rational);
\* requireAllMustHaveSkills is TRUE only when the spec sets it to true

\* the outcome of one hard-filter rule: whether it set belowThreshold and
\* what it pushed on thresholdReasons
RuleFired(reason) == [below |-> TRUE, reasons |-> <<reason>>]
RuleQuiet == [below |-> FALSE, reasons |-> <<>>]

\* must-have skills threshold
checkMustHaveRatio(inputs, mustHaveSkillsScore) ==
    LET minMustHaveMatchRatio == inputs.hardFilters.minMustHaveMatchRatio
    IN  IF minMustHaveMatchRatio # None
           /\ RLt(mustHaveSkillsScore, minMustHaveMatchRatio[1])
        THEN RuleFired(Reason("mustHaveRatio", <<>>,
                 <<RInt(RRound(RMul(mustHaveSkillsScore, RInt(100)))),
                   RInt(RRound(RMul(minMustHaveMatchRatio[1], RInt(100))))>>))
        ELSE RuleQuiet

\* checkRequireAll overridden by the ratio rule: quiet when the must-have
\* score is already below minMustHaveMatchRatio
checkRequireAllUnlessRatio(inputs) ==
    Let(SelectSeq(inputs.mustHave, LAMBDA s : ~s.matched), LAMBDA missing :
        IF /\ inputs.hardFilters.requireAllMustHaveSkills /\ Len(missing) > 0
           /\ ~checkMustHaveRatio(inputs, scoreSkills(inputs.mustHave)).below
        THEN RuleFired(Reason("missingSkills",
                 [i \in 1..Len(missing) |-> missing[i].skill], <<>>))
        ELSE RuleQuiet)

\* all must-have skills required
checkRequireAll(inputs) ==
    Let(SelectSeq(inputs.mustHave, LAMBDA s : ~s.matched), LAMBDA missing :
        IF inputs.hardFilters.requireAllMustHaveSkills /\ Len(missing) > 0
        THEN RuleFired(Reason("missingSkills",
                 [i \in 1..Len(missing) |-> missing[i].skill], <<>>))
        ELSE RuleQuiet)

\* minimum relevant experience (a null relevantYears counts as 0)
checkMinRelevantExperience(inputs) ==
    LET minRelevantExp == inputs.hardFilters.minRelevantExperienceYears
        relevantYears == IF inputs.relevantExperience.relevantYears = None
                         THEN RInt(0)
                         ELSE inputs.relevantExperience.relevantYears[1]
    IN  IF minRelevantExp # None /\ RLt(relevantYears, minRelevantExp[1])
        THEN RuleFired(Reason("relevantExperience", <<>>,
                 <<relevantYears, minRelevantExp[1]>>))
        ELSE RuleQuiet

\* red flag penalty threshold
checkMaxRedFlagPenalty(inputs, redFlagPenalty) ==
    LET maxRedFlagPenalty == inputs.hardFilters.maxRedFlagPenalty
    IN  IF maxRedFlagPenalty # None
           /\ RLt(maxRedFlagPenalty[1], RInt(redFlagPenalty))
        THEN RuleFired(Reason("redFlagPenalty", <<>>,
                 <<RInt(redFlagPenalty), maxRedFlagPenalty[1]>>))
        ELSE RuleQuiet

\* checkJuniorForSeniorRole setting belowThreshold without pushing a reason
checkJuniorForSeniorRoleSilent(inputs) ==
    IF /\ RLe(RInt(5), inputs.minYearsExperience)
       /\ inputs.seniority.level = "junior"
       /\ RLt(<<3, 5>>, inputs.seniority.confidence)
    THEN [below |-> TRUE, reasons |-> <<>>]
    ELSE RuleQuiet

\* candidate too junior for a senior role
checkJuniorForSeniorRole(inputs) ==
    IF /\ RLe(RInt(5), inputs.minYearsExperience)
       /\ inputs.seniority.level = "junior"
       /\ RLt(<<3, 5>>, inputs.seniority.confidence)
    THEN RuleFired(Reason("juniorForSeniorRole", <<>>, <<>>))
    ELSE RuleQuiet

\* several high-severity red flags
checkHighSeverityFlags(inputs) ==
    Let(SelectSeq(inputs.redFlags.flags, LAMBDA f : f.severity = "high"),
        LAMBDA highSeverityFlags :
        IF Len(highSeverityFlags) >= 2
        THEN RuleFired(Reason("highSeverityFlags",
                 [i \in 1..Len(highSeverityFlags) |-> highSeverityFlags[i].type],
                 <<>>))
        ELSE RuleQuiet)

\* the weighted sum with the experience weight on the years of the
\* candidate, experienceScore
weightedScoreOnYears(breakdown, weights) ==
    RSumSeq(<<RMul(breakdown.mustHaveSkillsScore, weights.mustHaveSkills),
              RMul(breakdown.niceToHaveSkillsScore, weights.niceToHaveSkills),
              RMul(breakdown.experienceScore, weights.experience),
              RMul(breakdown.skillDepthScore, weights.skillDepth),
              RMul(breakdown.seniorityScore, weights.seniority),
              RMul(breakdown.recencyScore, weights.recency),
              RMul(breakdown.projectScaleScore, weights.projectScale),
              RMul(breakdown.educationScore, weights.education)>>)

\* overall01: the weighted sum of the component scores
weightedScore(breakdown, weights) ==
    RSumSeq(<<RMul(breakdown.mustHaveSkillsScore, weights.mustHaveSkills),
              RMul(breakdown.niceToHaveSkillsScore, weights.niceToHaveSkills),
              RMul(breakdown.relevantExperienceScore, weights.experience),
              RMul(breakdown.skillDepthScore, weights.skillDepth),
              RMul(breakdown.seniorityScore, weights.seniority),
              RMul(breakdown.recencyScore, weights.recency),
              RMul(breakdown.projectScaleScore, weights.projectScale),
              RMul(breakdown.educationScore, weights.education)>>)

\* Math.round(clamp01(overall01) * 100)
rawScoreOf(overall01) == RRound(RMul(clamp01(overall01), RInt(100)))

\* rawScore - redFlagPenalty without the floor at 0
finalScoreOfUnfloored(rawScore, redFlagPenalty) == rawScore - redFlagPenalty

\* Math.max(0, rawScore - redFlagPenalty)
finalScoreOf(rawScore, redFlagPenalty) ==
    IF rawScore - redFlagPenalty > 0 THEN rawScore - redFlagPenalty ELSE 0

\* the rules in the order scoreCandidate evaluates them
hardFilterRules(inputs, breakdown) ==
    <<checkMustHaveRatio(inputs, breakdown.mustHaveSkillsScore),
      checkRequireAll(inputs),
      checkMinRelevantExperience(inputs),
      checkMaxRedFlagPenalty(inputs, breakdown.redFlagPenalty),
      checkJuniorForSeniorRole(inputs),
      checkHighSeverityFlags(inputs)>>

\* applyHardFilters with a filter that zeroes the score of a candidate it
\* puts below the threshold
applyHardFiltersZeroing(inputs, scored) ==
    Let(hardFilterRules(inputs, scored.breakdown), LAMBDA rules :
    Let(\E i \in 1..Len(rules) : rules[i].below, LAMBDA below :
        [overallScore |-> IF below THEN 0 ELSE scored.overallScore,
         rawScore |-> scored.rawScore,
         belowThreshold |-> below,
         thresholdReasons |->
             rules[1].reasons \o rules[2].reasons \o rules[3].reasons
             \o rules[4].reasons \o rules[5].reasons \o rules[6].reasons,
         breakdown |-> scored.breakdown,
         effectiveWeights |-> scored.effectiveWeights]))

\* the threshold part of scoreCandidate: scored holds the scores computed
\* before it, the result adds belowThreshold and thresholdReasons to them
applyHardFilters(inputs, scored) ==
    Let(hardFilterRules(inputs, scored.breakdown), LAMBDA rules :
        [overallScore |-> scored.overallScore,
         rawScore |-> scored.rawScore,
         belowThreshold |-> \E i \in 1..Len(rules) : rules[i].below,
         thresholdReasons |->
             rules[1].reasons \o rules[2].reasons \o rules[3].reasons
             \o rules[4].reasons \o rules[5].reasons \o rules[6].reasons,
         breakdown |-> scored.breakdown,
         effectiveWeights |-> scored.effectiveWeights])

\* the component scores and the penalty scoreCandidate reports
breakdownOf(inputs) ==
    [mustHaveSkillsScore |-> scoreSkills(inputs.mustHave),
     niceToHaveSkillsScore |-> scoreSkills(inputs.niceToHave),
     experienceScore |->
         scoreExperience(inputs.candidateYearsExperience, inputs.minYearsExperience),
     relevantExperienceScore |->
         scoreRelevantExperience(inputs.relevantExperience, inputs.minYearsExperience),
     skillDepthScore |-> scoreSkillDepth(inputs.skillDepth),
     seniorityScore |-> scoreSeniority(inputs.seniority, inputs.minYearsExperience),
     recencyScore |-> scoreRecency(inputs.recencyAnalysis),
     projectScaleScore |-> scoreProjectScale(inputs.projectScale),
     educationScore |-> scoreEducation(inputs.education, inputs.minYearsExperience),
     redFlagPenalty |-> inputs.redFlags.totalPenalty]

scoreCandidate(args) ==
    Let(args, LAMBDA inputs :
    Let2(normalizeWeights(inputs.weights), breakdownOf(inputs), LAMBDA weights, breakdown :
    Let(rawScoreOf(weightedScore(breakdown, weights)), LAMBDA rawScore :
        applyHardFilters(inputs,
            [overallScore |-> finalScoreOf(rawScore, breakdown.redFlagPenalty),
             rawScore |-> rawScore,
             breakdown |-> breakdown,
             effectiveWeights |-> weights]))))

----------------------------------------------------------------------------
(* The ranking request: one candidate analysed and scored                  *)

\* the lines a CV is made of ("Lead 03/2024 - 08/2024", ...)
RoleLines ==
    {[title |-> <<"lead">>, dates |-> <<DateRange(3, 2024, 8, 2024)>>],
     [title |-> <<"junior", "developer">>, dates |-> <<DateRange(0, 2025, 0, 0)>>],
     [title |-> <<"senior", "engineer", "react">>, dates |-> <<DateRange(0, 2015, 0, 2020)>>],
     [title |-> <<"developer", "react", "node">>, dates |-> <<DateRange(0, 2022, 0, 2024)>>],
     [title |-> <<"stagiaire">>, dates |-> <<DateRange(0, 2021, 0, 2022)>>],
     [title |-> <<"engineer", "platform", "master">>, dates |-> <<DateRange(0, 2019, 0, 0)>>]}

\* the normalized texts of the candidates
Texts == UNION {[1..n -> RoleLines] : n \in 0..MaxRoles}

\* scoring.weights of the role specs: even, must-have only, all zero, and
\* one with a negative weight (the loader does not validate the weights)
WeightProfiles ==
    {[k \in WeightNames |-> Num(1)],
     [k \in WeightNames |-> IF k = "mustHaveSkills" THEN Num(1)
                            ELSE IF k \in OptionalWeightNames THEN Undefined ELSE Num(0)],
     [k \in WeightNames |-> Num(0)],
     [k \in WeightNames |-> IF k = "mustHaveSkills" THEN Num(2)
                            ELSE IF k = "niceToHaveSkills" THEN Num(-1)
                            ELSE IF k = "experience" THEN Num(0) ELSE Undefined]}

\* scoring.hardFilters of the role specs: every filter absent or set
HardFilterSets ==
    [minMustHaveMatchRatio : {None, Some(<<1, 2>>)},
     requireAllMustHaveSkills : BOOLEAN,
     minRelevantExperienceYears : {None, Some(RInt(2))},
     maxRedFlagPenalty : {None, Some(RInt(9))}]

\* a role spec without hard filters
NoHardFilters ==
    [minMustHaveMatchRatio |-> None,
     requireAllMustHaveSkills |-> FALSE,
     minRelevantExperienceYears |-> None,
     maxRedFlagPenalty |-> None]

\* the role specs and the project of the requests
RoleSpecs ==
    [mustHaveSkills : {<<[skill |-> "react", weight |-> Num(2)],
                         [skill |-> "node", weight |-> Num(1)]>>},
     niceToHaveSkills : {<<[skill |-> "docker", weight |-> Num(1)]>>},
     experienceRelevanceKeywords : {{"react"}},
     skillAliases : {[s \in {"node"} |-> {"nodejs"}]},
     minYearsExperience : {RInt(0), RInt(3), RInt(5)},
     weights : WeightProfiles,
     hardFilters : {NoHardFilters}]

\* the argument the ranking route passes to extractFeatures
FeatureParams(text, spec) ==
    [text |-> text,
     mustHaveSkills |-> spec.mustHaveSkills,
     niceToHaveSkills |-> spec.niceToHaveSkills,
     skillAliases |-> spec.skillAliases,
     experienceRelevanceKeywords |-> spec.experienceRelevanceKeywords]

\* the argument the ranking route passes to scoreCandidate
ScoreInputs(spec, f) ==
    [minYearsExperience |-> spec.minYearsExperience,
     hardFilters |-> spec.hardFilters,
     mustHave |-> f.mustHave,
     niceToHave |-> f.niceToHave,
     candidateYearsExperience |-> f.yearsExperience,
     relevantExperience |-> f.relevantExperience,
     skillDepth |-> f.skillDepth,
     seniority |-> f.seniority,
     recencyAnalysis |-> f.recencyAnalysis,
     redFlags |-> f.redFlags,
     projectScale |-> f.projectScale,
     education |-> f.education,
     weights |-> spec.weights]

\* the steps of extractFeatures that call new Date(), in program order
ClockSteps ==
    <<"yearsExperience", "relevantExperience", "skillDepth", "seniority",
      "recencyAnalysis", "redFlags">>

\* the instants the steps of an analysis read, by step
AtInstants(instants) ==
    [k \in {ClockSteps[i] : i \in DOMAIN ClockSteps} |->
        instants[CHOOSE i \in DOMAIN ClockSteps : ClockSteps[i] = k]]

\* every step of an analysis reading the same instant
AtInstant(now) == AtInstants([i \in DOMAIN ClockSteps |-> now])

Init ==
    /\ cv \in Texts
    /\ roleSpec \in RoleSpecs
    /\ clock = Clock(2025, 6)
    /\ reads = <<>>
    /\ features = None /\ result = None
    /\ wIn = None /\ wOut = None
    /\ rawText = <<>> /\ normalized = None /\ cached = None
    /\ UnitsIdle

\* the request analyses the candidate's text; the wall clock does not move
\* during the request
ExtractFeatures ==
    /\ features = None
    /\ features' = Some(extractFeatures(FeatureParams(cv, roleSpec), AtInstant(clock)))
    /\ UNCHANGED <<cv, roleSpec, clock, reads, result, weightVars, textVars, unitVars>>

ScoreCandidate ==
    /\ features # None /\ result = None
    /\ result' = Some(scoreCandidate(ScoreInputs(roleSpec, features[1])))
    /\ UNCHANGED <<cv, roleSpec, clock, reads, features, weightVars, textVars, unitVars>>

\* the role spec gets hard filters and the candidate is scored again, from
\* the same features
EditHardFilters ==
    /\ result # None
    /\ roleSpec.hardFilters = NoHardFilters
    /\ \E hf \in HardFilterSets \ {NoHardFilters} :
        /\ roleSpec' = [roleSpec EXCEPT !.hardFilters = hf]
        /\ result' = Some(scoreCandidate(ScoreInputs(roleSpec', features[1])))
    /\ UNCHANGED <<cv, clock, reads, features, weightVars, textVars, unitVars>>

Next == ExtractFeatures \/ ScoreCandidate \/ EditHardFilters

Spec == Init /\ [][Next]_vars

----------------------------------------------------------------------------
(* Specification of normalizeWeights alone                                 *)

InitWeights ==
    /\ wIn \in ScoringWeightsDomain
    /\ wOut = None
    /\ cv = <<>> /\ roleSpec = None /\ clock = None /\ reads = <<>>
    /\ features = None /\ result = None
    /\ rawText = <<>> /\ normalized = None /\ cached = None
    /\ UnitsIdle

NormalizeWeights ==
    /\ wOut = None
    /\ wOut' = Some(normalizeWeights(wIn))
    /\ UNCHANGED <<wIn, analysisVars, textVars, unitVars>>

NextWeights == NormalizeWeights

SpecWeights == InitWeights /\ [][NextWeights]_vars

----------------------------------------------------------------------------
(* An analysis whose steps read the wall clock while it advances           *)
(*                                                                         *)
(* extractFeatures takes no clock: extractDateIntervals, getRoleRecency,   *)
(* getSkillLastUsedYear, categorizeRecency and detectJobHopping each call  *)
(* new Date().  The steps of ClockSteps run one after the other; the wall  *)
(* clock may pass a month boundary between two of them.  The reads of one  *)
(* step are taken together.                                                *)

InitClock ==
    /\ cv \in Texts
    /\ roleSpec \in {s \in RoleSpecs :
                       /\ s.minYearsExperience = RInt(5)
                       /\ s.weights = [k \in WeightNames |-> Num(1)]}
    /\ clock \in {Clock(2025, 6), Clock(2025, 12)}
    /\ reads = <<>>
    /\ features = None /\ result = None
    /\ wIn = None /\ wOut = None
    /\ rawText = <<>> /\ normalized = None /\ cached = None
    /\ UnitsIdle

\* the wall clock passes a month boundary while the analysis runs
Tick ==
    /\ reads # <<>> /\ features = None
    /\ nowMonthIndexOf(clock) - nowMonthIndexOf(reads[1]) < MaxTicks
    /\ clock' = IF clock.month = 12 THEN Clock(clock.year + 1, 1)
                ELSE Clock(clock.year, clock.month + 1)
    /\ UNCHANGED <<cv, roleSpec, reads, features, result, weightVars, textVars, unitVars>>

\* the next step of extractFeatures runs and reads the clock; the last step
\* completes the feature bundle
AnalysisStep ==
    /\ features = None
    /\ reads' = Append(reads, clock)
    /\ features' = IF Len(reads') < Len(ClockSteps) THEN None
                   ELSE Some(extractFeatures(FeatureParams(cv, roleSpec), AtInstants(reads')))
    /\ UNCHANGED <<cv, roleSpec, clock, result, weightVars, textVars, unitVars>>

NextClock == Tick \/ AnalysisStep \/ ScoreCandidate

SpecClock == InitClock /\ [][NextClock]_vars

----------------------------------------------------------------------------
(* Text normalisation (text.ts)                                            *)
(*                                                                         *)
(* A text is a sequence of characters: "a" (a letter), "-", " ", "LF"      *)
(* (\n), "CR" (\r) and "NUL" (\u0000).  The no-break space, the soft       *)
(* hyphen, the tab and the other control characters are left out of the    *)
(* alphabet.                                                               *)

Chars == {"a", "-", " ", "LF", "CR", "NUL"}

RECURSIVE replaceLineBreaks(_, _)
\* raw.replaceAll("\r\n", "\n").replaceAll("\r", "\n"), from raw[i] on
replaceLineBreaks(raw, i) ==
    IF i > Len(raw) THEN <<>>
    ELSE IF raw[i] = "CR" /\ i < Len(raw) /\ raw[i + 1] = "LF"
    THEN <<"LF">> \o replaceLineBreaks(raw, i + 2)
    ELSE <<IF raw[i] = "CR" THEN "LF" ELSE raw[i]>> \o replaceLineBreaks(raw, i + 1)

RECURSIVE replaceNul(_, _)
\* text.replaceAll("\u0000", " - "), from text[i] on
replaceNul(text, i) ==
    IF i > Len(text) THEN <<>>
    ELSE (IF text[i] = "NUL" THEN <<" ", "-", " ">> ELSE <<text[i]>>)
         \o replaceNul(text, i + 1)

RECURSIVE dehyphenate(_, _)
\* text.replaceAll(/(\p{L})-\n(\p{L})/gu, "$1$2"), from text[i] on: the
\* search resumes after the second letter of a match
dehyphenate(text, i) ==
    IF i > Len(text) THEN <<>>
    ELSE IF /\ i + 3 <= Len(text)
            /\ text[i] = "a" /\ text[i + 1] = "-" /\ text[i + 2] = "LF" /\ text[i + 3] = "a"
    THEN <<text[i], text[i + 3]>> \o dehyphenate(text, i + 4)
    ELSE <<text[i]>> \o dehyphenate(text, i + 1)

RECURSIVE splitLines(_, _, _)
\* text.split("\n") from text[i] on, line being the line read so far
splitLines(text, i, line) ==
    IF i > Len(text) THEN <<line>>
    ELSE IF text[i] = "LF" THEN <<line>> \o splitLines(text, i + 1, <<>>)
    ELSE Let(Append(line, text[i]), LAMBDA l : splitLines(text, i + 1, l))

RECURSIVE collapseSpaces(_, _)
\* line.replaceAll(/[ \t]+/g, " "), from line[i] on
collapseSpaces(line, i) ==
    IF i > Len(line) THEN <<>>
    ELSE (IF line[i] = " " /\ i > 1 /\ line[i - 1] = " " THEN <<>> ELSE <<line[i]>>)
         \o collapseSpaces(line, i + 1)

RECURSIVE trimEnd(_, _)
\* trimEnd of the first n characters of s
trimEnd(s, n) ==
    IF n = 0 THEN <<>>
    ELSE IF s[n] \in {" ", "LF"} THEN trimEnd(s, n - 1)
    ELSE SubSeq(s, 1, n)

RECURSIVE trimStart(_, _)
\* trimStart of s from s[i] on
trimStart(s, i) ==
    IF i > Len(s) THEN <<>>
    ELSE IF s[i] \in {" ", "LF"} THEN trimStart(s, i + 1)
    ELSE SubSeq(s, i, Len(s))

RECURSIVE collapseBlankRuns(_, _, _)
\* the loop over the lines from lines[i] on: of a run of blank lines the
\* first two are kept
collapseBlankRuns(lines, i, blankRun) ==
    IF i > Len(lines) THEN <<>>
    ELSE IF trimStart(lines[i], 1) = <<>>
    THEN (IF blankRun + 1 <= 2 THEN <<<<>>>> ELSE <<>>)
         \o collapseBlankRuns(lines, i + 1, blankRun + 1)
    ELSE <<lines[i]>> \o collapseBlankRuns(lines, i + 1, 0)

RECURSIVE joinLines(_, _)
\* out.join("\n"), from out[i] on
joinLines(out, i) ==
    IF i > Len(out) THEN <<>>
    ELSE IF i = Len(out) THEN out[i]
    ELSE out[i] \o <<"LF">> \o joinLines(out, i + 1)

normalizeText(raw) ==
    Let(raw, LAMBDA r :
    Let(replaceLineBreaks(r, 1), LAMBDA unix :
    Let(replaceNul(unix, 1), LAMBDA clean :
    Let(dehyphenate(clean, 1), LAMBDA text :
    Let(splitLines(text, 1, <<>>), LAMBDA split :
    Let([k \in 1..Len(split) |->
            Let(collapseSpaces(split[k], 1), LAMBDA l : trimEnd(l, Len(l)))],
        LAMBDA lines :
    Let(collapseBlankRuns(lines, 1, 0), LAMBDA out :
    Let(joinLines(out, 1), LAMBDA joined :
    Let(trimStart(joined, 1), LAMBDA t : trimEnd(t, Len(t)))))))))))

\* the texts extracted from the PDF files
RawTexts == UNION {[1..n -> Chars] : n \in 0..MaxTextLen}

InitText ==
    /\ rawText \in RawTexts
    /\ normalized = None /\ cached = None
    /\ cv = <<>> /\ roleSpec = None /\ clock = None /\ reads = <<>>
    /\ features = None /\ result = None
    /\ wIn = None /\ wOut = None
    /\ UnitsIdle

\* getNormalizedText: the text extracted from the PDF is normalized and
\* written to the text cache
NormalizeExtractedText ==
    /\ normalized = None
    /\ normalized' = Some(normalizeText(rawText))
    /\ UNCHANGED <<rawText, cached, weightVars, analysisVars, unitVars>>

\* getTextFromCache on an entry of an older schema version: the cached text
\* is normalized again and written back
UpgradeTextCache ==
    /\ normalized # None /\ cached = None
    /\ cached' = Some(normalizeText(normalized[1]))
    /\ UNCHANGED <<rawText, normalized, weightVars, analysisVars, unitVars>>

NextText == NormalizeExtractedText \/ UpgradeTextCache

SpecText == InitText /\ [][NextText]_vars

----------------------------------------------------------------------------
(* The matcher over characters (features.ts, text.ts)                      *)
(*                                                                         *)
(* Here a text is a sequence of characters: "a", "A" and "b" (letters),    *)
(* "+" (a character that is neither a letter nor a digit), " " and "LF".   *)
(* A term (a skill, an alias, a keyword) is a sequence of characters too.  *)
(* Fuse.js is a library: what its index answers to a search is an input of *)
(* the model (the variable fuse), the same for every search of one term.   *)

\* the most characters of a text given to the matcher
MaxMatchLen == 3

\* the most aliases the project holds for a skill
MaxAliases == 2

\* String.prototype.trim
trim(s) == trimStart(trimEnd(s, Len(s)), 1)

\* toLines: text.split("\n").map((l) => l.trim()).filter((l) => l.length > 0)
toLines(text) ==
    LET split == splitLines(text, 1, <<>>)
    IN  SelectSeq([i \in DOMAIN split |-> trim(split[i])], LAMBDA l : l # <<>>)

truncateMiddle(s, maxLen) ==
    IF Len(s) <= maxLen THEN s
    ELSE LET head == (maxLen - 3) \div 2
             tail == maxLen - 3 - head
         IN  SubSeq(s, 1, head) \o <<".", ".", ".">> \o SubSeq(s, Len(s) - tail + 1, Len(s))

\* lineSnippetAtIndex; index is the position of a character of the text,
\* counted from 1 (the code counts from 0)
lineSnippetAtIndex(text, index, maxLen) ==
    LET before == {q \in 1..index : text[q] = "LF"}
        after == {q \in index..Len(text) : text[q] = "LF"}
        start == IF before = {} THEN 1
                 ELSE (CHOOSE q \in before : \A r \in before : r <= q) + 1
        end == IF after = {} THEN Len(text) + 1
               ELSE CHOOSE q \in after : \A r \in after : q <= r
        line == trim(SubSeq(text, start, end - 1))
        \* the fallback: text.slice(contextStart, contextEnd)
        \*     .replaceAll(/\s+/g, " ").trim()
        contextStart == IF index - 80 < 1 THEN 1 ELSE index - 80
        contextEnd == IF index + 139 > Len(text) THEN Len(text) ELSE index + 139
        context == SubSeq(text, contextStart, contextEnd)
        isSpace(c) == c \in {" ", "LF"}
        kept == {i \in DOMAIN context : ~isSpace(context[i]) \/ i = 1 \/ ~isSpace(context[i - 1])}
        collapsed ==
            [k \in 1..Cardinality(kept) |->
                LET i == CHOOSE i \in kept : Cardinality({j \in kept : j < i}) = k - 1
                IN  IF isSpace(context[i]) THEN " " ELSE context[i]]
    IN  IF Len(line) > 0 THEN truncateMiddle(line, maxLen)
        ELSE truncateMiddle(trim(collapsed), maxLen)

\* findExactEvidence: None for null, Some(snippet) for a string.  The
\* pattern is the escaped term, under the i flag, between characters that
\* are not letters or digits when useBoundary; re.exec returns the first
\* position at which it matches
findExactEvidence(text, term) ==
    LET trimmed == trim(term)
        isAlnum(c) == c \in {"a", "A", "b"}
        sameChar(c, d) == (IF c = "A" THEN "a" ELSE c) = (IF d = "A" THEN "a" ELSE d)
        useBoundary == (\A k \in DOMAIN trimmed : isAlnum(trimmed[k])) /\ Len(trimmed) <= 5
        hits ==
            {p \in 1..(Len(text) - Len(trimmed) + 1) :
                /\ \A k \in 1..Len(trimmed) : sameChar(text[p + k - 1], trimmed[k])
                /\ useBoundary =>
                    /\ p = 1 \/ ~isAlnum(text[p - 1])
                    /\ p + Len(trimmed) > Len(text) \/ ~isAlnum(text[p + Len(trimmed)])}
    IN  IF trimmed = <<>> THEN None
        ELSE IF hits = {} THEN None
        ELSE Some(lineSnippetAtIndex(text, CHOOSE p \in hits : \A q \in hits : p <= q, 220))

\* findFuzzyEvidence; fuseIndex is None when no Fuse index was built, else
\* <<f>> with f[term] the results of fuse.search(term, { limit: 1 })
findFuzzyEvidence(lines, fuseIndex, term) ==
    LET trimmed == trim(term)
    IN  IF trimmed = <<>> THEN None
        ELSE IF fuseIndex = None THEN None
        ELSE IF Len(trimmed) <= 3 THEN None
        ELSE LET results == fuseIndex[1][trimmed]
             IN  IF Len(results) = 0 THEN None
                 ELSE IF RLt(<<1, 4>>, results[1].score) THEN None
                 ELSE Some(truncateMiddle(trim(results[1].item), 220))

\* expandTerms keeping of the aliases only the one added last
expandTermsLastAlias(skill, skillAliases) ==
    SelectSeq(
        IF skill \in DOMAIN skillAliases /\ skillAliases[skill] # <<>>
           /\ skillAliases[skill][Len(skillAliases[skill])] # skill
        THEN <<skill, skillAliases[skill][Len(skillAliases[skill])]>>
        ELSE <<skill>>,
        LAMBDA s : trim(s) # <<>>)

\* expandTerms: a Set of the skill and then its aliases
\* (skillAliases[skill] ?? []), in insertion order, without the blank terms
expandTerms(skill, skillAliases) ==
    LET all == <<skill>> \o (IF skill \in DOMAIN skillAliases THEN skillAliases[skill] ELSE <<>>)
        first == {i \in DOMAIN all : \A j \in 1..(i - 1) : all[j] # all[i]}
        out == [k \in 1..Cardinality(first) |->
                   all[CHOOSE i \in first : Cardinality({j \in first : j < i}) = k - 1]]
    IN  SelectSeq(out, LAMBDA s : trim(s) # <<>>)

\* matchSkill reporting a fuzzy match without its snippet
matchSkillInTextNoSnippet(text, lines, fuseIndex, spec, skillAliases) ==
    LET terms == expandTerms(spec.skill, skillAliases)
        exact == {i \in DOMAIN terms :
                     LET evidence == findExactEvidence(text, terms[i])
                     IN  evidence # None /\ evidence[1] # <<>>}
        fuzzy == {i \in DOMAIN terms :
                     LET evidence == findFuzzyEvidence(lines, fuseIndex, terms[i])
                     IN  evidence # None /\ evidence[1] # <<>>}
    IN  IF exact # {}
        THEN [skill |-> spec.skill, weight |-> spec.weight, matched |-> TRUE,
              evidence |-> <<findExactEvidence(text,
                               terms[CHOOSE i \in exact : \A j \in exact : i <= j])[1]>>]
        ELSE [skill |-> spec.skill, weight |-> spec.weight, matched |-> fuzzy # {},
              evidence |-> <<>>]

\* matchSkill, on the text as characters: the first term with a truthy
\* (neither null nor empty) exact evidence, else the first term with a
\* truthy fuzzy evidence
matchSkillInText(text, lines, fuseIndex, spec, skillAliases) ==
    LET terms == expandTerms(spec.skill, skillAliases)
        exact == {i \in DOMAIN terms :
                     LET evidence == findExactEvidence(text, terms[i])
                     IN  evidence # None /\ evidence[1] # <<>>}
        fuzzy == {i \in DOMAIN terms :
                     LET evidence == findFuzzyEvidence(lines, fuseIndex, terms[i])
                     IN  evidence # None /\ evidence[1] # <<>>}
    IN  IF exact # {}
        THEN [skill |-> spec.skill, weight |-> spec.weight, matched |-> TRUE,
              evidence |-> <<findExactEvidence(text,
                               terms[CHOOSE i \in exact : \A j \in exact : i <= j])[1]>>]
        ELSE IF fuzzy # {}
        THEN [skill |-> spec.skill, weight |-> spec.weight, matched |-> TRUE,
              evidence |-> <<findFuzzyEvidence(lines, fuseIndex,
                               terms[CHOOSE i \in fuzzy : \A j \in fuzzy : i <= j])[1]>>]
        ELSE [skill |-> spec.skill, weight |-> spec.weight, matched |-> FALSE,
              evidence |-> <<>>]

matchKeyword(text, lines, fuseIndex, keyword) ==
    LET evidenceExact == findExactEvidence(text, keyword)
        evidenceFuzzy == findFuzzyEvidence(lines, fuseIndex, keyword)
    IN  IF evidenceExact # None /\ evidenceExact[1] # <<>>
        THEN [keyword |-> keyword, matched |-> TRUE, evidence |-> <<evidenceExact[1]>>]
        ELSE IF evidenceFuzzy # None /\ evidenceFuzzy[1] # <<>>
        THEN [keyword |-> keyword, matched |-> TRUE, evidence |-> <<evidenceFuzzy[1]>>]
        ELSE [keyword |-> keyword, matched |-> FALSE, evidence |-> <<>>]

\* the matching steps of extractFeatures: must-have skills and keywords
matchAll(text, fuseIndex, spec, skillAliases) ==
    LET lines == toLines(text)
    IN  [mustHave |->
             [i \in 1..Len(spec.mustHaveSkills) |->
                 matchSkillInText(text, lines, fuseIndex, spec.mustHaveSkills[i], skillAliases)],
         keywordHits |->
             [i \in 1..Len(spec.keywords) |->
                 matchKeyword(text, lines, fuseIndex, spec.keywords[i])]]

----------------------------------------------------------------------------
(* Specification of the matcher: a text is matched, the project gets more  *)
(* aliases for the skill and the text is matched again                     *)

\* the role's skill is "ab", "a+" or "abab" and its keywords are "a" and
\* "baba".  The index answers the searches of the terms longer than three
\* characters ("abab", "baba") with no result or with one of the lines and
\* a score
InitMatch ==
    /\ matchText \in UNION {[1..n -> {"a", "A", "b", "+", " ", "LF"}] : n \in 0..MaxMatchLen}
    /\ roleSpec \in {[mustHaveSkills |-> <<[skill |-> s, weight |-> Num(1)]>>,
                      keywords |-> <<<<"a">>, <<"b", "a", "b", "a">>>>] :
                        s \in {<<"a", "b">>, <<"a", "+">>, <<"a", "b", "a", "b">>}}
    /\ aliasMap = <<>>
    /\ fuse \in LET lines == toLines(matchText)
                IN  IF lines = <<>> THEN {None}
                    ELSE {Some(f) :
                            f \in [{<<"a", "b", "a", "b">>, <<"b", "a", "b", "a">>} ->
                                     {<<>>} \cup {<<[item |-> lines[i], score |-> s]>> :
                                                     i \in DOMAIN lines,
                                                     s \in {<<1, 5>>, <<3, 10>>}}]}
    /\ matchOut = None
    /\ cv = <<>> /\ clock = None /\ reads = <<>>
    /\ features = None /\ result = None
    /\ wIn = None /\ wOut = None
    /\ rawText = <<>> /\ normalized = None /\ cached = None
    /\ IntervalsIdle /\ ExperienceIdle /\ YearsIdle /\ CallsIdle

\* extractFeatures matches the skills and the keywords
MatchText ==
    /\ matchOut = None
    /\ matchOut' = Some(matchAll(matchText, fuse, roleSpec, aliasMap))
    /\ UNCHANGED <<matchText, aliasMap, fuse, weightVars, analysisVars, textVars,
                   intervalVars, experienceVars, yearVars,
                   callVars>>

\* the project gets one more alias for the skill (" ", "b", "+" or "baba"),
\* and the text is matched again
AddAlias ==
    /\ matchOut # None
    /\ \E alias \in {<<" ">>, <<"b">>, <<"+">>, <<"b", "a", "b", "a">>} :
        LET skill == roleSpec.mustHaveSkills[1].skill
            old == IF skill \in DOMAIN aliasMap THEN aliasMap[skill] ELSE <<>>
        IN  /\ Len(old) < MaxAliases
            /\ \A j \in DOMAIN old : old[j] # alias
            /\ aliasMap' = [s \in {skill} |-> Append(old, alias)]
            /\ matchOut' = Some(matchAll(matchText, fuse, roleSpec, aliasMap'))
    /\ UNCHANGED <<matchText, fuse, weightVars, analysisVars, textVars,
                   intervalVars, experienceVars, yearVars,
                   callVars>>

NextMatch == MatchText \/ AddAlias

SpecMatch == InitMatch /\ [][NextMatch]_vars

----------------------------------------------------------------------------
(* Specification of mergeIntervals alone                                   *)

\* the last month index of the intervals passed to mergeIntervals
MaxMonth == 4

\* the most intervals passed to mergeIntervals
MaxIntervals == 3

\* the lists pushInterval builds: every interval has start < end
InitIntervals ==
    /\ mergeIn \in UNION {[1..n -> {[start |-> s, end |-> e] :
                                      s \in 0..MaxMonth, e \in 0..MaxMonth}] :
                            n \in 0..MaxIntervals}
    /\ \A i \in DOMAIN mergeIn : pushInterval(<<>>, mergeIn[i].start, mergeIn[i].end) # <<>>
    /\ mergeOut = None
    /\ cv = <<>> /\ roleSpec = None /\ clock = None /\ reads = <<>>
    /\ features = None /\ result = None
    /\ wIn = None /\ wOut = None
    /\ rawText = <<>> /\ normalized = None /\ cached = None
    /\ MatchIdle /\ ExperienceIdle /\ YearsIdle /\ CallsIdle

\* const merged = mergeIntervals(intervals);
\* const totalMonths = merged.reduce((sum, i) => sum + (i.end - i.start), 0);
MergeIntervals ==
    /\ mergeOut = None
    /\ mergeOut' = Some([merged |-> mergeIntervals(mergeIn),
                         totalMonths |-> TotalMonths(mergeIntervals(mergeIn))])
    /\ UNCHANGED <<mergeIn, weightVars, analysisVars, textVars, matchVars,
                   experienceVars, yearVars,
                   callVars>>

NextIntervals == MergeIntervals

SpecIntervals == InitIntervals /\ [][NextIntervals]_vars

----------------------------------------------------------------------------
(* Specification of scoreExperience alone                                  *)

\* the most years of a candidate, in tenths of a year
MaxTenths == 500

\* the largest minYearsExperience of a role spec
MaxMinYears == 40

\* the candidate's years are null or a number of tenths of a year (what
\* monthsToYears returns); the loader accepts any number for the role's
\* minYearsExperience
InitExperience ==
    /\ expIn \in {Some([candidateYears |-> y, minYearsExperience |-> RInt(m)]) :
                    y \in {None} \cup {Some(Rat(k, 10)) : k \in 0..MaxTenths},
                    m \in -1..MaxMinYears}
    /\ expOut = None
    /\ cv = <<>> /\ roleSpec = None /\ clock = None /\ reads = <<>>
    /\ features = None /\ result = None
    /\ wIn = None /\ wOut = None
    /\ rawText = <<>> /\ normalized = None /\ cached = None
    /\ MatchIdle /\ IntervalsIdle /\ YearsIdle /\ CallsIdle

\* const experienceScore = scoreExperience(candidateYears, minYearsExperience)
ScoreExperience ==
    /\ expOut = None
    /\ expOut' = Some(scoreExperience(expIn[1].candidateYears, expIn[1].minYearsExperience))
    /\ UNCHANGED <<expIn, weightVars, analysisVars, textVars, matchVars,
                   intervalVars, yearVars,
                   callVars>>

\* the call repeated for a candidate with a tenth of a year more
ScoreLongerExperience ==
    /\ expOut # None /\ expIn[1].candidateYears # None
    /\ RLt(expIn[1].candidateYears[1], Rat(MaxTenths, 10))
    /\ expIn' = Some([expIn[1] EXCEPT !.candidateYears =
                          Some(RAdd(expIn[1].candidateYears[1], Rat(1, 10)))])
    /\ expOut' = Some(scoreExperience(expIn'[1].candidateYears, expIn'[1].minYearsExperience))
    /\ UNCHANGED <<weightVars, analysisVars, textVars, matchVars,
                   intervalVars, yearVars,
                   callVars>>

NextExperience == ScoreExperience \/ ScoreLongerExperience

SpecExperience == InitExperience /\ [][NextExperience]_vars

----------------------------------------------------------------------------
(* Careers: requests over CVs of up to MaxCareerRoles lines, among them    *)
(* the texts of the end-to-end scenarios of the documentation              *)

\* the most lines of a CV of CareerTexts
MaxCareerRoles == 3

\* "Lead 03/2024 - 08/2024", "Developer 01/2015 - 06/2015",
\* "Stagiaire 03/2024 - 06/2024", "Engineer 2015 - 2016, 2019 - 2020",
\* "Developer React Node 2022 - 2024",
\* "Sr Software Engineer. 2019 - present at Acme. Led a team of 8.",
\* "Junior Developer 2023 - 2024", "Junior Developer 2024 - present" and
\* "Junior Developer 2023 - 2024. Junior Developer 2024 - present."
CareerLines ==
    {[title |-> <<"lead">>, dates |-> <<DateRange(3, 2024, 8, 2024)>>],
     [title |-> <<"developer">>, dates |-> <<DateRange(1, 2015, 6, 2015)>>],
     [title |-> <<"stagiaire">>, dates |-> <<DateRange(3, 2024, 6, 2024)>>],
     [title |-> <<"engineer">>,
      dates |-> <<DateRange(0, 2015, 0, 2016), DateRange(0, 2019, 0, 2020)>>],
     [title |-> <<"developer", "react", "node">>, dates |-> <<DateRange(0, 2022, 0, 2024)>>],
     [title |-> <<"sr ", "software", "engineer", "acme", "led", "team">>,
      dates |-> <<DateRange(0, 2019, 0, 0)>>],
     [title |-> <<"junior", "developer">>, dates |-> <<DateRange(0, 2023, 0, 2024)>>],
     [title |-> <<"junior", "developer">>, dates |-> <<DateRange(0, 2024, 0, 0)>>],
     [title |-> <<"junior", "developer", "junior", "developer">>,
      dates |-> <<DateRange(0, 2023, 0, 2024), DateRange(0, 2024, 0, 0)>>]}

\* the candidates are the texts of at most MaxCareerRoles career lines and
\* the text of four engineer roles dated 2015-2016, 2018-2019, 2020-2021 and
\* 2023-present; the role of the requests is a senior role (minYearsExperience 5) with
\* the must-have skill "leadership", alias "led", with or without
\* experienceRelevanceKeywords, even weights and no hard filters
InitCareers ==
    /\ cv \in UNION {[1..n -> CareerLines] : n \in 0..MaxCareerRoles}
              \cup {<<[title |-> <<"engineer">>, dates |-> <<DateRange(0, 2015, 0, 2016)>>],
                      [title |-> <<"engineer">>, dates |-> <<DateRange(0, 2018, 0, 2019)>>],
                      [title |-> <<"engineer">>, dates |-> <<DateRange(0, 2020, 0, 2021)>>],
                      [title |-> <<"engineer">>, dates |-> <<DateRange(0, 2023, 0, 0)>>]>>}
    /\ roleSpec \in
        [mustHaveSkills : {<<[skill |-> "leadership", weight |-> Num(1)]>>},
         niceToHaveSkills : {<<>>},
         experienceRelevanceKeywords : {{}, {"react"}},
         skillAliases : {[s \in {"leadership"} |-> {"led"}]},
         minYearsExperience : {RInt(5)},
         weights : {[k \in WeightNames |-> Num(1)]},
         hardFilters : {NoHardFilters}]
    /\ clock = Clock(2025, 6)
    /\ reads = <<>>
    /\ features = None /\ result = None
    /\ wIn = None /\ wOut = None
    /\ rawText = <<>> /\ normalized = None /\ cached = None
    /\ UnitsIdle

NextCareers == ExtractFeatures \/ ScoreCandidate

SpecCareers == InitCareers /\ [][NextCareers]_vars

----------------------------------------------------------------------------
(* Specification of yearTokenToNumber alone                                *)

\* how many years after 2024 the clock can be
MaxClockYears == 2

\* yearTokenToNumber on a cleaned token of four digits (19xx or 20xx; the
\* other four-digit tokens match neither pattern) or of two digits
yearTokenToNumber(token, nowYear) ==
    IF token.digits = 4
    THEN (IF token.value \div 100 \in {19, 20} THEN yearToken4(token.value, nowYear)
          ELSE None)
    ELSE yearToken2(token.value, nowYear)

InitYears ==
    /\ yearIn \in {Some([digits |-> 4, value |-> v]) : v \in 1800..2199}
                  \cup {Some([digits |-> 2, value |-> v]) : v \in 0..99}
    /\ yearOut = None
    /\ clock \in {Clock(2024 + k, 6) : k \in 0..MaxClockYears}
    /\ cv = <<>> /\ roleSpec = None /\ reads = <<>>
    /\ features = None /\ result = None
    /\ wIn = None /\ wOut = None
    /\ rawText = <<>> /\ normalized = None /\ cached = None
    /\ MatchIdle /\ IntervalsIdle /\ ExperienceIdle /\ CallsIdle

\* a date extractor converts the year token it matched, with the year of
\* new Date()
YearTokenToNumber ==
    /\ yearOut = None
    /\ yearOut' = Some(yearTokenToNumber(yearIn[1], clock.year))
    /\ UNCHANGED <<yearIn, weightVars, analysisVars, textVars, matchVars,
                   intervalVars, experienceVars,
                   callVars>>

NextYears == YearTokenToNumber

SpecYears == InitYears /\ [][NextYears]_vars

----------------------------------------------------------------------------
(* Parse quality.  calculateParseQuality reads of the text only its length *)
(* and the number of its characters outside ASCII, Latin and Arabic, so    *)
(* the text is given by these two numbers.                                 *)

MaxDates == 3
MaxSkillSpecs == 2

calculateParseQuality(textLength, garbledChars, datesParsed, experienceSectionFound, skillsMatched, totalSkills) ==
    LET lengthIssue == IF textLength < 200
                       THEN <<"Very low text extraction (< 200 chars)">>
                       ELSE IF textLength < 500
                       THEN <<"Low text extraction (< 500 chars)">>
                       ELSE <<>>
        lengthScore == IF textLength < 200 THEN Rat(-3, 10)
                       ELSE IF textLength < 500 THEN Rat(-15, 100)
                       ELSE IF textLength > 1000 THEN Rat(2, 10)
                       ELSE RInt(0)
        \* 0 / 0 is NaN, and NaN > 0.1 is false
        garbled == textLength > 0 /\ RLt(Rat(1, 10), Rat(garbledChars, textLength))
        skillSome == totalSkills > 0 /\ skillsMatched > 0
        skillGood == totalSkills > 0 /\ RLe(Rat(3, 10), Rat(skillsMatched, totalSkills))
        issues ==
            lengthIssue
            \o (IF garbled THEN <<"Possible OCR issues detected">> ELSE <<>>)
            \o (IF datesParsed = 0 THEN <<"No dates parsed from CV">> ELSE <<>>)
            \o (IF experienceSectionFound THEN <<>>
                ELSE <<"Experience section not clearly identified">>)
            \o (IF skillGood \/ skillSome THEN <<>> ELSE <<"No skills matched from CV">>)
        confidenceScore ==
            RSumSeq(<<lengthScore,
                      IF garbled THEN Rat(-1, 10) ELSE RInt(0),
                      IF datesParsed = 0 THEN Rat(-25, 100)
                      ELSE IF datesParsed >= 3 THEN Rat(15, 100) ELSE Rat(5, 100),
                      IF experienceSectionFound THEN Rat(15, 100) ELSE Rat(-1, 10),
                      IF skillGood THEN Rat(2, 10)
                      ELSE IF skillSome THEN Rat(1, 10) ELSE Rat(-15, 100)>>)
        confidence == RMax(RInt(0), RMin(RInt(1), RAdd(Rat(1, 2), confidenceScore)))
    IN  [overall |-> IF RLe(Rat(7, 10), confidence) /\ Len(issues) = 0 THEN "high"
                     ELSE IF RLe(Rat(4, 10), confidence) /\ Len(issues) <= 2 THEN "medium"
                     ELSE "low",
         confidence |-> confidence,
         textExtraction |-> IF textLength < 200 THEN "poor"
                            ELSE IF textLength < 500 THEN "partial" ELSE "good",
         datesParsed |-> datesParsed,
         experienceSectionFound |-> experienceSectionFound,
         skillsMatched |-> skillsMatched,
         issues |-> issues]

\* the texts are short, middling and long; a text in which an experience
\* section was found is longer than the 50 characters of that section
InitQuality ==
    /\ qualityIn \in
        {<<q>> : q \in
            {q \in [textLength : {0, 60, 199, 200, 499, 500, 1000, 1001},
                    garbledChars : {0, 6, 19, 20, 50, 100, 101},
                    datesParsed : 0..MaxDates,
                    experienceSectionFound : BOOLEAN,
                    skillsMatched : 0..MaxSkillSpecs,
                    totalSkills : 0..MaxSkillSpecs] :
                /\ q.garbledChars <= q.textLength
                /\ q.skillsMatched <= q.totalSkills
                /\ q.experienceSectionFound => q.textLength > 50}}
    /\ qualityOut = None
    /\ wIn = None /\ wOut = None
    /\ cv = <<>> /\ roleSpec = None /\ clock = None /\ reads = <<>>
    /\ features = None /\ result = None
    /\ rawText = <<>> /\ normalized = None /\ cached = None
    /\ MatchIdle /\ IntervalsIdle /\ ExperienceIdle /\ YearsIdle
    /\ ScoringIdle /\ SeniorityIdle /\ PushIdle /\ RankingIdle /\ CacheIdle

\* extractFeatures on the text: the low-text warning first, the issues of
\* the parse quality last (the warnings of the other analyses, which come
\* between them, are left out)
CalculateParseQuality ==
    /\ qualityIn # None /\ qualityOut = None
    /\ LET q == qualityIn[1]
           parseQuality == calculateParseQuality(q.textLength, q.garbledChars,
                               q.datesParsed, q.experienceSectionFound,
                               q.skillsMatched, q.totalSkills)
       IN  qualityOut' =
               Some([parseQuality |-> parseQuality,
                     warnings |->
                         (IF q.textLength < 200
                          THEN <<"Low extracted text. OCR fallback may be needed, scoring may be less accurate.">>
                          ELSE <<>>)
                         \o parseQuality.issues])
    /\ UNCHANGED <<qualityIn, weightVars, analysisVars, textVars, matchVars,
                   intervalVars, experienceVars, yearVars, scoringVars, seniorityVars, pushVars, rankingVars, cacheVars>>

NextQuality == CalculateParseQuality

SpecQuality == InitQuality /\ [][NextQuality]_vars

----------------------------------------------------------------------------
(* scoreCandidate on feature bundles.  The bundles are not those of a text *)
(* but every combination of a few values of each field, the numbers in     *)
(* [0, 1] and the years not negative.                                      *)

InitScoring ==
    /\ scoreIn \in
        {<<[minYearsExperience |-> RInt(minYears),
            hardFilters |-> NoHardFilters,
            mustHave |-> <<[skill |-> "react", weight |-> Num(1), matched |-> matched]>>,
            niceToHave |-> <<>>,
            candidateYearsExperience |-> years,
            relevantExperience |-> relevant,
            skillDepth |-> depth,
            seniority |-> [level |-> level, confidence |-> unit],
            recencyAnalysis |->
                [recencyScore |-> recency,
                 careerTrajectory |-> [trajectory |-> trajectory],
                 skillRecency |-> skillRecency],
            redFlags |-> [flags |-> <<>>, totalPenalty |-> 0],
            projectScale |-> [scaleScore |-> unit],
            education |-> [educationScore |-> unit],
            weights |-> [k \in WeightNames |-> Num(1)]]>> :
         minYears \in {2, 3, 5},
         matched \in BOOLEAN,
         years \in {None, Some(RInt(0)), Some(RInt(8))},
         relevant \in
            {[relevantYears |-> None, totalYears |-> Some(RInt(4)), roles |-> <<>>],
             [relevantYears |-> Some(RInt(6)), totalYears |-> Some(RInt(8)),
              roles |-> <<[isRelevant |-> TRUE, recency |-> "current"]>>]},
         depth \in {<<>>, <<[depthScore |-> RInt(1), contextQuality |-> "high"]>>},
         level \in {"senior", "mid", "junior", "unknown"},
         unit \in {RInt(0), RInt(1)},
         recency \in {RInt(0), <<11, 20>>, <<7, 10>>, RInt(1)},
         trajectory \in {"ascending", "descending", "stable", "unclear"},
         skillRecency \in {<<>>, <<[recencyCategory |-> "current"]>>,
                           <<[recencyCategory |-> "stale"]>>}}
    /\ scoreOut = None
    /\ wIn = None /\ wOut = None
    /\ cv = <<>> /\ roleSpec = None /\ clock = None /\ reads = <<>>
    /\ features = None /\ result = None
    /\ rawText = <<>> /\ normalized = None /\ cached = None
    /\ MatchIdle /\ IntervalsIdle /\ ExperienceIdle /\ YearsIdle
    /\ QualityIdle /\ SeniorityIdle /\ PushIdle /\ RankingIdle /\ CacheIdle

\* const score = scoreCandidate({...})
ScoreBundle ==
    /\ scoreIn # None /\ scoreOut = None
    /\ scoreOut' = Some(scoreCandidate(scoreIn[1]))
    /\ UNCHANGED <<scoreIn, weightVars, analysisVars, textVars, matchVars,
                   intervalVars, experienceVars, yearVars, qualityVars, seniorityVars, pushVars, rankingVars, cacheVars>>

\* a second call whose argument differs in candidateYearsExperience only
RescoreWithYears ==
    /\ scoreOut # None
    /\ \E years \in {None, Some(RInt(0)), Some(RInt(8))} :
        /\ years # scoreIn[1].candidateYearsExperience
        /\ scoreIn' = Some([scoreIn[1] EXCEPT !.candidateYearsExperience = years])
        /\ scoreOut' = Some(scoreCandidate(scoreIn'[1]))
    /\ UNCHANGED <<weightVars, analysisVars, textVars, matchVars,
                   intervalVars, experienceVars, yearVars, qualityVars, seniorityVars, pushVars, rankingVars, cacheVars>>

NextScoring == ScoreBundle \/ RescoreWithYears

SpecScoring == InitScoring /\ [][NextScoring]_vars

----------------------------------------------------------------------------
(* The level and confidence of detectSeniority, from the scores it counts  *)

\* the most indicators, years and leadership phrases counted on one side
MaxIndicatorScore == 7

InitSeniority ==
    /\ seniorityIn \in {Some([seniorScore |-> s, juniorScore |-> j]) :
                          s \in 0..MaxIndicatorScore, j \in 0..MaxIndicatorScore}
    /\ seniorityOut = None
    /\ wIn = None /\ wOut = None
    /\ cv = <<>> /\ roleSpec = None /\ clock = None /\ reads = <<>>
    /\ features = None /\ result = None
    /\ rawText = <<>> /\ normalized = None /\ cached = None
    /\ MatchIdle /\ IntervalsIdle /\ ExperienceIdle /\ YearsIdle
    /\ QualityIdle /\ ScoringIdle /\ PushIdle /\ RankingIdle /\ CacheIdle

\* "Determine level": the end of detectSeniority
DetermineLevel ==
    /\ seniorityIn # None /\ seniorityOut = None
    /\ seniorityOut' = Some(seniorityFromScores(seniorityIn[1].seniorScore,
                                                seniorityIn[1].juniorScore))
    /\ UNCHANGED <<seniorityIn, weightVars, analysisVars, textVars, matchVars,
                   intervalVars, experienceVars, yearVars, qualityVars, scoringVars, pushVars, rankingVars, cacheVars>>

NextSeniority == DetermineLevel

SpecSeniority == InitSeniority /\ [][NextSeniority]_vars

----------------------------------------------------------------------------
(* pushInterval on the month indices of a parsed range, and the months     *)
(* counted for it                                                          *)

\* the start years of the ranges, counted from 1950
MaxStartYears == 9

\* the ranges start in January of a year from 1950 on and are empty, of a
\* month or a year, or about fifty years wide
InitPush ==
    /\ pushIn \in {Some([startIndex |-> toMonthIndex(1950 + y, 1),
                         endIndex |-> toMonthIndex(1950 + y, 1) + width]) :
                     y \in 0..MaxStartYears, width \in {0, 1, 12, 599, 600, 601, 612}}
    /\ pushOut = None
    /\ wIn = None /\ wOut = None
    /\ cv = <<>> /\ roleSpec = None /\ clock = None /\ reads = <<>>
    /\ features = None /\ result = None
    /\ rawText = <<>> /\ normalized = None /\ cached = None
    /\ MatchIdle /\ IntervalsIdle /\ ExperienceIdle /\ YearsIdle
    /\ QualityIdle /\ ScoringIdle /\ SeniorityIdle /\ RankingIdle /\ CacheIdle

\* pushInterval(out, start, end) on an empty list, then mergeIntervals and
\* the sum of the merged widths
PushInterval ==
    /\ pushIn # None /\ pushOut = None
    /\ LET out == pushInterval(<<>>, pushIn[1].startIndex, pushIn[1].endIndex)
       IN  pushOut' = Some([out |-> out, months |-> TotalMonths(mergeIntervals(out))])
    /\ UNCHANGED <<pushIn, weightVars, analysisVars, textVars, matchVars,
                   intervalVars, experienceVars, yearVars, qualityVars, scoringVars, seniorityVars, rankingVars, cacheVars>>

NextPush == PushInterval

SpecPush == InitPush /\ [][NextPush]_vars

----------------------------------------------------------------------------
(* The ranking response (GET of the ranking route): the loop over the      *)
(* files of the role, then the sort.  A file is given by what the loop     *)
(* gets for it: its buffer (the candidateId is the hash of the buffer),    *)
(* whether a text is obtained, and the score scoreCandidate returns.       *)

MaxPdfs == 3
MaxCandidateIds == 2
MaxOverallScore == 2

\* candidates.sort((a, b) => ...) ranking by overallScore alone
sortCandidatesByScore(list) ==
    LET before(a, b) == b.score.overallScore - a.score.overallScore
        RECURSIVE sorted(_)
        sorted(n) ==
            IF n = 0 THEN <<>>
            ELSE LET prev == sorted(n - 1)
                     later == {k \in DOMAIN prev : before(prev[k], list[n]) > 0}
                     at == IF later = {} THEN Len(prev) + 1
                           ELSE CHOOSE k \in later : \A l \in later : k <= l
                 IN  SubSeq(prev, 1, at - 1) \o <<list[n]>> \o SubSeq(prev, at, Len(prev))
    IN  sorted(Len(list))

\* candidates.sort((a, b) => ...): the sort is stable, so a candidate goes
\* before the first of the earlier ones that the comparator puts after it
sortCandidates(list) ==
    LET before(a, b) ==
            IF a.score.belowThreshold # b.score.belowThreshold
            THEN (IF a.score.belowThreshold THEN 1 ELSE -1)
            ELSE b.score.overallScore - a.score.overallScore
        RECURSIVE sorted(_)
        sorted(n) ==
            IF n = 0 THEN <<>>
            ELSE LET prev == sorted(n - 1)
                     later == {k \in DOMAIN prev : before(prev[k], list[n]) > 0}
                     at == IF later = {} THEN Len(prev) + 1
                           ELSE CHOOSE k \in later : \A l \in later : k <= l
                 IN  SubSeq(prev, 1, at - 1) \o <<list[n]>> \o SubSeq(prev, at, Len(prev))
    IN  sorted(Len(list))

\* the scores stand for overall scores of 0 to 100, of which the sort reads
\* the order only
InitRanking ==
    /\ scanPdfs \in UNION {[1..n ->
            [buffer : {None} \cup {Some(id) : id \in 1..MaxCandidateIds},
             text : BOOLEAN,
             score : [belowThreshold : BOOLEAN, overallScore : 0..MaxOverallScore]]] :
          n \in 0..MaxPdfs}
    /\ cursor = 0
    /\ candidates = <<>>
    /\ response = None
    /\ wIn = None /\ wOut = None
    /\ cv = <<>> /\ roleSpec = None /\ clock = None /\ reads = <<>>
    /\ features = None /\ result = None
    /\ rawText = <<>> /\ normalized = None /\ cached = None
    /\ MatchIdle /\ IntervalsIdle /\ ExperienceIdle /\ YearsIdle
    /\ QualityIdle /\ ScoringIdle /\ SeniorityIdle /\ PushIdle /\ CacheIdle

\* one turn of the loop over scan.pdfs: the file is passed over when its
\* buffer cannot be read, when its candidateId was seen or when no text is
\* obtained; otherwise the candidate is analysed, scored and pushed
AnalysePdf ==
    /\ response = None /\ cursor < Len(scanPdfs)
    /\ cursor' = cursor + 1
    /\ LET pdf == scanPdfs[cursor + 1]
           seen == {scanPdfs[k].buffer[1] : k \in {k \in 1..cursor : scanPdfs[k].buffer # None}}
       IN  candidates' =
               IF pdf.buffer = None \/ pdf.buffer[1] \in seen \/ ~pdf.text
               THEN candidates
               ELSE Append(candidates, [candidateId |-> pdf.buffer[1], score |-> pdf.score])
    /\ UNCHANGED <<scanPdfs, response, weightVars, analysisVars, textVars, matchVars,
                   intervalVars, experienceVars, yearVars, qualityVars, scoringVars, seniorityVars, pushVars, cacheVars>>

\* candidates.sort(...); return NextResponse.json({..., candidates, ...})
Respond ==
    /\ response = None /\ cursor = Len(scanPdfs)
    /\ response' = Some(sortCandidates(candidates))
    /\ UNCHANGED <<scanPdfs, cursor, candidates, weightVars, analysisVars, textVars,
                   matchVars, intervalVars, experienceVars, yearVars, qualityVars, scoringVars, seniorityVars, pushVars, cacheVars>>

NextRanking == AnalysePdf \/ Respond

SpecRanking == InitRanking /\ [][NextRanking]_vars

----------------------------------------------------------------------------
(* The text cache of one candidate under one role, over successive         *)
(* requests.  A text is given by what the cache logic reads of it: its     *)
(* length, whether looksGarbledPdfText holds of it, and whether            *)
(* normalizeText leaves it as it is (a text it does not leave alone loses  *)
(* the two characters of a hyphenated line break).  Reading the PDF and    *)
(* writing the record of a request succeed; OCR may throw.                 *)

\* normalizeText on a text of the cache
normalizeCachedText(text) ==
    IF text.stable THEN text
    ELSE [text EXCEPT !.chars = text.chars - 2, !.stable = TRUE]

\* getTextFromCache: the hit (None when there is no record) and the record
\* it writes back when it upgrades an older schema version
getTextFromCache(cachedRecord) ==
    IF cachedRecord = None THEN [hit |-> None, upgraded |-> None]
    ELSE LET record == cachedRecord[1]
             meta == [extractionMethod |-> record.extractionMethod]
         IN  IF record.schemaVersion = 3
             THEN [hit |-> Some([normalizedText |-> record.normalizedText,
                                 normalizedTextChars |-> record.normalizedTextChars,
                                 meta |-> meta]),
                   upgraded |-> None]
             ELSE Let(normalizeCachedText(record.normalizedText), LAMBDA upgradedNormalized :
                      [hit |-> Some([normalizedText |-> upgradedNormalized,
                                     normalizedTextChars |-> upgradedNormalized.chars,
                                     meta |-> meta]),
                       upgraded |-> Some([schemaVersion |-> 3,
                                          normalizedText |-> upgradedNormalized,
                                          normalizedTextChars |-> upgradedNormalized.chars,
                                          extractionMethod |-> record.extractionMethod])])

\* maybeRunOcr: the text kept, its extraction method and whether OCR ran
maybeRunOcr(file, forceOcr, ocrThrows) ==
    LET normalizedFromPdf == file.pdfText
        looksScanned == file.numpages > 0 /\ normalizedFromPdf.chars < 200
        shouldPreferOcr ==
            \/ file.ocrText.chars > normalizedFromPdf.chars
            \/ /\ forceOcr /\ normalizedFromPdf.garbled /\ ~file.ocrText.garbled
               /\ file.ocrText.chars >= 100
    IN  IF ~looksScanned /\ ~forceOcr
        THEN [normalizedText |-> normalizedFromPdf, extractionMethod |-> "pdf", ocr |-> FALSE]
        ELSE IF ~ocrThrows /\ shouldPreferOcr
        THEN [normalizedText |-> file.ocrText, extractionMethod |-> "ocr", ocr |-> TRUE]
        ELSE [normalizedText |-> normalizedFromPdf, extractionMethod |-> "pdf", ocr |-> TRUE]

\* the cache is empty or holds a record of an older schema version, which
\* has no extraction method
InitCache ==
    /\ pdfFile \in [pdfText : [chars : {150, 199, 200, 250}, garbled : BOOLEAN, stable : {TRUE}],
                    numpages : {0, 2},
                    ocrText : [chars : {50, 150, 201, 250}, garbled : BOOLEAN,
                               stable : {TRUE}]]
    /\ cacheRecord \in
        {None} \cup
        {Some([schemaVersion |-> 2, normalizedText |-> text,
               normalizedTextChars |-> text.chars, extractionMethod |-> "undefined"]) :
            text \in [chars : {150, 199, 200, 201, 250}, garbled : BOOLEAN, stable : BOOLEAN]}
    /\ lastRequest = None
    /\ wIn = None /\ wOut = None
    /\ cv = <<>> /\ roleSpec = None /\ clock = None /\ reads = <<>>
    /\ features = None /\ result = None
    /\ rawText = <<>> /\ normalized = None /\ cached = None
    /\ MatchIdle /\ IntervalsIdle /\ ExperienceIdle /\ YearsIdle
    /\ QualityIdle /\ ScoringIdle /\ SeniorityIdle /\ PushIdle /\ RankingIdle

\* getCachedOrExtractedText, one request for the candidate
GetCachedOrExtractedText ==
    \E ocrThrows, upgradeWritten \in BOOLEAN :
        LET read == getTextFromCache(cacheRecord)
            cachedHit == read.hit
            afterRead == IF read.upgraded # None /\ upgradeWritten
                         THEN read.upgraded ELSE cacheRecord
            shouldBypassCache ==
                /\ cachedHit # None
                /\ \/ /\ cachedHit[1].normalizedTextChars < 200
                      /\ cachedHit[1].meta.extractionMethod # "ocr"
                   \/ /\ cachedHit[1].normalizedText.garbled
                      /\ cachedHit[1].meta.extractionMethod # "ocr"
            ocrResult == maybeRunOcr(pdfFile, pdfFile.pdfText.garbled, ocrThrows)
        IN  /\ IF cachedHit # None /\ ~shouldBypassCache
               THEN /\ cacheRecord' = afterRead
                    /\ lastRequest' = Some([normalizedText |-> cachedHit[1].normalizedText,
                                            cacheHit |-> TRUE, bypassed |-> FALSE,
                                            extractPdfText |-> FALSE, ocr |-> FALSE])
               ELSE /\ cacheRecord' =
                           Some([schemaVersion |-> 3,
                                 normalizedText |-> ocrResult.normalizedText,
                                 normalizedTextChars |-> ocrResult.normalizedText.chars,
                                 extractionMethod |-> ocrResult.extractionMethod])
                    /\ lastRequest' = Some([normalizedText |-> ocrResult.normalizedText,
                                            cacheHit |-> cachedHit # None,
                                            bypassed |-> shouldBypassCache,
                                            extractPdfText |-> TRUE, ocr |-> ocrResult.ocr])
            /\ UNCHANGED <<pdfFile, weightVars, analysisVars, textVars, matchVars,
                           intervalVars, experienceVars, yearVars, qualityVars, scoringVars, seniorityVars, pushVars, rankingVars>>

NextCache == GetCachedOrExtractedText

SpecCache == InitCache /\ [][NextCache]_vars

----------------------------------------------------------------------------
(* Claims about the score of a candidate                                   *)

\* C1: for every output of scoreCandidate produced from a feature bundle of
\* extractFeatures, overallScore is between 0 and 100 inclusive and is
\* never greater than rawScore.
C1_OverallScoreRange ==
    result # None =>
        /\ 0 <= result[1].overallScore
        /\ result[1].overallScore <= 100
        /\ result[1].overallScore <= result[1].rawScore

\* C1 witness: a scored candidate whose penalty exceeds its raw score of more
\* than 0, and
\* whose overall score is held at 0
C1_Witness ==
    /\ result # None
    /\ result[1].rawScore > 0
    /\ features[1].redFlags.totalPenalty > result[1].rawScore
    /\ result[1].overallScore = 0

\* C2: rawScore is round(100 x the sum over the eight configurable weights
\* of effectiveWeight x its component score), and nothing else enters it.
C2_RawScoreIsWeightedSum ==
    result # None =>
        LET b == result[1].breakdown
            ew == result[1].effectiveWeights
        IN  result[1].rawScore =
                RRound(RMul(RInt(100),
                    RSumSeq(<<RMul(ew.mustHaveSkills, b.mustHaveSkillsScore),
                              RMul(ew.niceToHaveSkills, b.niceToHaveSkillsScore),
                              RMul(ew.experience, b.relevantExperienceScore),
                              RMul(ew.skillDepth, b.skillDepthScore),
                              RMul(ew.seniority, b.seniorityScore),
                              RMul(ew.recency, b.recencyScore),
                              RMul(ew.projectScale, b.projectScaleScore),
                              RMul(ew.education, b.educationScore)>>)))

\* C3: normalizeWeights returns the fixed default {0.30, 0.10, 0.20, 0.10,
\* 0.10, 0.08, 0.08, 0.04} when the sum of the eight configured weights is
\* <= 0 and each weight divided by the sum otherwise; in both cases the
\* effective weights sum to 1 within 0.001.
C3_NormalizeWeights ==
    wOut # None =>
        LET ew == wOut[1]
            sum == WeightSum(wIn)
            total == EffectiveSum(ew)
        IN  /\ sum <= 0 =>
                /\ ew.mustHaveSkills = <<3, 10>> /\ ew.niceToHaveSkills = <<1, 10>>
                /\ ew.experience = <<1, 5>> /\ ew.skillDepth = <<1, 10>>
                /\ ew.seniority = <<1, 10>> /\ ew.recency = <<2, 25>>
                /\ ew.projectScale = <<2, 25>> /\ ew.education = <<1, 25>>
            /\ sum > 0 =>
                \A k \in WeightNames :
                    ew[k][1] * sum = safeNumber(wIn[k], 0) * ew[k][2]
            /\ RLe(<<999, 1000>>, total) /\ RLe(total, <<1001, 1000>>)

\* C3 witness: weights of sum 0, one of them absent and two of them not 0,
\* normalized to the default
C3_Witness ==
    /\ wOut # None
    /\ WeightSum(wIn) = 0
    /\ wIn.education = Undefined
    /\ wIn.mustHaveSkills = Num(1)
    /\ wOut[1].mustHaveSkills = <<3, 10>>

\* C4: a negative configured weight is treated as 0: every effective weight
\* returned by normalizeWeights is in [0, 1], and the effective weights are
\* those of the same weight set with its negative weights set to 0.
C4_NegativeWeightIsZero ==
    wOut # None =>
        LET negativesAsZero ==
                [k \in WeightNames |->
                    IF wIn[k][1] = "number" /\ wIn[k][2] < 0 THEN Num(0) ELSE wIn[k]]
        IN  /\ \A k \in WeightNames :
                RLe(RInt(0), wOut[1][k]) /\ RLe(wOut[1][k], RInt(1))
            /\ wOut[1] = normalizeWeights(negativesAsZero)

\* C5: for every scoreCandidate output, belowThreshold = true implies that
\* thresholdReasons is not empty.
C5_BelowThresholdHasReason ==
    result # None =>
        (result[1].belowThreshold => Len(result[1].thresholdReasons) > 0)

\* C5 witness: a candidate put below the threshold by the junior-for-senior
\* rule alone
C5_Witness ==
    /\ result # None
    /\ result[1].belowThreshold
    /\ Len(result[1].thresholdReasons) = 1
    /\ result[1].thresholdReasons[1].rule = "juniorForSeniorRole"

\* C6: belowThreshold is true exactly when at least one of the six rules
\* fires (firedRules reads them from the inputs of scoreCandidate); each
\* fired rule appends exactly one reason and a quiet rule none (so a failing
\* ratio and a failing requireAll both contribute), and the requireAll
\* reason names every unmatched must-have skill.
C6_ThresholdRules ==
    result # None =>
        LET f == features[1]
            hf == roleSpec.hardFilters
            relevantYears == IF f.relevantExperience.relevantYears = None THEN RInt(0)
                             ELSE f.relevantExperience.relevantYears[1]
            highSeverity == {i \in DOMAIN f.redFlags.flags :
                                f.redFlags.flags[i].severity = "high"}
            firedRules ==
                {rule \in {"mustHaveRatio", "missingSkills", "relevantExperience",
                           "redFlagPenalty", "juniorForSeniorRole", "highSeverityFlags"} :
                    CASE rule = "mustHaveRatio" ->
                            /\ hf.minMustHaveMatchRatio # None
                            /\ RLt(result[1].breakdown.mustHaveSkillsScore,
                                   hf.minMustHaveMatchRatio[1])
                      [] rule = "missingSkills" ->
                            /\ hf.requireAllMustHaveSkills
                            /\ \E i \in DOMAIN f.mustHave : ~f.mustHave[i].matched
                      [] rule = "relevantExperience" ->
                            /\ hf.minRelevantExperienceYears # None
                            /\ RLt(relevantYears, hf.minRelevantExperienceYears[1])
                      [] rule = "redFlagPenalty" ->
                            /\ hf.maxRedFlagPenalty # None
                            /\ RLt(hf.maxRedFlagPenalty[1], RInt(f.redFlags.totalPenalty))
                      [] rule = "juniorForSeniorRole" ->
                            /\ RLe(RInt(5), roleSpec.minYearsExperience)
                            /\ f.seniority.level = "junior"
                            /\ RLt(<<3, 5>>, f.seniority.confidence)
                      [] rule = "highSeverityFlags" -> Cardinality(highSeverity) >= 2}
            reasons == result[1].thresholdReasons
            mustHave == f.mustHave
        IN  /\ result[1].belowThreshold <=> firedRules # {}
            /\ \A i \in DOMAIN reasons :
                /\ reasons[i].rule \in firedRules
                /\ \A j \in DOMAIN reasons : reasons[j].rule = reasons[i].rule => j = i
            /\ \A rule \in firedRules : \E i \in DOMAIN reasons : reasons[i].rule = rule
            /\ \A i \in DOMAIN reasons :
                reasons[i].rule = "missingSkills" =>
                    /\ \A k \in DOMAIN mustHave :
                        ~mustHave[k].matched =>
                            \E n \in DOMAIN reasons[i].names :
                                reasons[i].names[n] = mustHave[k].skill
                    /\ \A n \in DOMAIN reasons[i].names :
                        \E k \in DOMAIN mustHave :
                            ~mustHave[k].matched /\ mustHave[k].skill = reasons[i].names[n]

\* C6 witness: a candidate with no must-have skill, scored with both the
\* ratio and the requireAll filter: both give a reason, and the requireAll
\* reason names the two must-have skills
C6_Witness ==
    /\ result # None
    /\ roleSpec.hardFilters.requireAllMustHaveSkills
    /\ roleSpec.hardFilters.minMustHaveMatchRatio # None
    /\ result[1].breakdown.mustHaveSkillsScore = RInt(0)
    /\ \E i, j \in DOMAIN result[1].thresholdReasons :
        /\ result[1].thresholdReasons[i].rule = "mustHaveRatio"
        /\ result[1].thresholdReasons[j].rule = "missingSkills"
        /\ result[1].thresholdReasons[j].names = <<"react", "node">>

\* C7: two scoreCandidate calls whose inputs differ only in hardFilters
\* give the same rawScore, overallScore, breakdown and effectiveWeights.
C7_HardFiltersKeepScores ==
    [][(/\ result # None /\ result' # None
        /\ cv' = cv /\ features' = features
        /\ roleSpec' = [roleSpec EXCEPT !.hardFilters = roleSpec'.hardFilters])
       => /\ result'[1].rawScore = result[1].rawScore
          /\ result'[1].overallScore = result[1].overallScore
          /\ result'[1].breakdown = result[1].breakdown
          /\ result'[1].effectiveWeights = result[1].effectiveWeights]_vars

\* C7 witness: a candidate scored again after hard filters were added to
\* the role spec, now below the threshold and with a positive score
C7_Witness ==
    /\ result # None
    /\ roleSpec.hardFilters # NoHardFilters
    /\ result[1].belowThreshold
    /\ result[1].overallScore > 0

\* C8: overallScore is max(0, rawScore - totalPenalty), where totalPenalty
\* is min(25, the sum of the penalties of all detected red flags), an
\* integer in [0, 25].
C8_PenaltyCapAndFloor ==
    result # None =>
        LET flags == features[1].redFlags.flags
            totalPenalty == features[1].redFlags.totalPenalty
            sum == SumPenalties(flags, 1)
            difference == result[1].rawScore - totalPenalty
        IN  /\ totalPenalty = IF sum < 25 THEN sum ELSE 25
            /\ totalPenalty \in 0..25
            /\ result[1].overallScore = IF difference > 0 THEN difference ELSE 0

\* C8 witness: a scored candidate whose red flags sum to more than 25
C8_Witness ==
    /\ result # None
    /\ SumPenalties(features[1].redFlags.flags, 1) > 25
    /\ features[1].redFlags.totalPenalty = 25

\* C9: every clock-dependent step of an analysis uses the one clock value
\* the analysis was given (the instant it started), so the features and the
\* score are those of an analysis at that instant even if the wall clock
\* advances while it runs.
C9_OneClockValue ==
    /\ features # None =>
        features[1] = extractFeatures(FeatureParams(cv, roleSpec), AtInstant(reads[1]))
    /\ result # None =>
        result[1] = scoreCandidate(ScoreInputs(roleSpec,
                        extractFeatures(FeatureParams(cv, roleSpec), AtInstant(reads[1]))))

\* C10: normalizeText is idempotent: normalizing a normalized text gives it
\* back.
C10_NormalizeTextIdempotent ==
    cached # None => cached[1] = normalized[1]

----------------------------------------------------------------------------
(* Claims about the matcher                                                *)

\* C11: for every SkillMatch and KeywordHit the matcher returns, matched =
\* true implies that evidence holds at least one non-empty snippet, and
\* matched = false implies that evidence is empty.
C11_MatchedHasEvidence ==
    matchOut # None =>
        \A list \in {matchOut[1].mustHave, matchOut[1].keywordHits} :
            \A i \in DOMAIN list :
                /\ list[i].matched =>
                    \E j \in DOMAIN list[i].evidence : list[i].evidence[j] # <<>>
                /\ ~list[i].matched => list[i].evidence = <<>>

\* C11 witness: the skill is matched by the fuzzy pass only, on a text of
\* two lines, and a keyword is unmatched
C11_Witness ==
    /\ matchOut # None
    /\ Len(toLines(matchText)) = 2
    /\ matchOut[1].mustHave[1].matched
    /\ findExactEvidence(matchText, roleSpec.mustHaveSkills[1].skill) = None
    /\ matchOut[1].mustHave[1].evidence = <<toLines(matchText)[2]>>
    /\ ~matchOut[1].keywordHits[1].matched

\* C12: alias monotonicity.  For every text and skill, a skill matched
\* under an alias map is still matched under every alias map that only adds
\* aliases for that skill.
C12_AliasMonotone ==
    [][(/\ matchOut # None /\ matchOut' # None
        /\ matchText' = matchText /\ fuse' = fuse /\ roleSpec' = roleSpec
        /\ \A s \in DOMAIN aliasMap :
            /\ s \in DOMAIN aliasMap'
            /\ \A j \in DOMAIN aliasMap[s] :
                \E k \in DOMAIN aliasMap'[s] : aliasMap'[s][k] = aliasMap[s][j])
       => \A i \in DOMAIN matchOut[1].mustHave :
            matchOut[1].mustHave[i].matched => matchOut'[1].mustHave[i].matched]_vars

\* C12 witness: the skill is matched through its first alias only, and the
\* project holds a second alias that the text does not contain
C12_Witness ==
    /\ matchOut # None
    /\ matchOut[1].mustHave[1].matched
    /\ LET skill == roleSpec.mustHaveSkills[1].skill
       IN  /\ skill \in DOMAIN aliasMap
           /\ Len(aliasMap[skill]) = 2
           /\ findExactEvidence(matchText, skill) = None
           /\ findExactEvidence(matchText, aliasMap[skill][1]) # None
           /\ findExactEvidence(matchText, aliasMap[skill][2]) = None
           /\ findFuzzyEvidence(toLines(matchText), fuse, aliasMap[skill][2]) = None

----------------------------------------------------------------------------
(* Claims about dates and experience                                       *)

\* C13: for every list of month intervals (each with start < end),
\* mergeIntervals returns the canonical form of their union: the intervals
\* are sorted by start, each starts strictly after the end of the one before
\* (no overlap, no touching), and they cover exactly the months the input
\* covers, whatever the order of the input; the total months is the sum of
\* end - start over the merged intervals and is the number of distinct
\* months covered.
C13_MergeIsCanonicalUnion ==
    mergeOut # None =>
        LET merged == mergeOut[1].merged
            months(list) == UNION {list[i].start..(list[i].end - 1) : i \in DOMAIN list}
            n == Len(mergeIn)
            orders == {p \in [1..n -> 1..n] : \A i, j \in 1..n : p[i] = p[j] => i = j}
        IN  /\ \A i \in DOMAIN merged : merged[i].start < merged[i].end
            /\ \A i \in 1..(Len(merged) - 1) : merged[i + 1].start > merged[i].end
            /\ months(merged) = months(mergeIn)
            /\ \A p \in orders : mergeIntervals([i \in 1..n |-> mergeIn[p[i]]]) = merged
            /\ mergeOut[1].totalMonths = Cardinality(months(mergeIn))
            /\ mergeOut[1].totalMonths =
                   RSumSeq([i \in DOMAIN merged |-> RInt(merged[i].end - merged[i].start)])[1]

\* C13 witness: three intervals passed out of order, the first two apart and
\* the third touching the first, are merged into two
C13_Witness ==
    /\ mergeOut # None
    /\ Len(mergeIn) = 3
    /\ mergeIn[2].end < mergeIn[1].start
    /\ mergeIn[3].start = mergeIn[1].end
    /\ Len(mergeOut[1].merged) = 2

C15_JobHoppingFlag ==
    features # None =>
        LET roles == extractProfessionalRoles(cv, clock)
            n == Cardinality({i \in DOMAIN roles :
                                 /\ nowMonthIndexOf(clock) - roles[i].endIndex < 60
                                 /\ roles[i].months < 12})
            hopping == SelectSeq(features[1].redFlags.flags,
                                 LAMBDA f : f.type = "job_hopping")
        IN  /\ n >= 3 => hopping = <<RedFlag("job_hopping", "high", 10)>>
            /\ n = 2 => hopping = <<RedFlag("job_hopping", "medium", 5)>>
            /\ n <= 1 => hopping = <<>>

\* C15 witness: a CV of three roles, two of them short and recent and one
\* short and old, gets the medium flag
C15_Witness ==
    /\ features # None
    /\ Len(extractProfessionalRoles(cv, clock)) = 3
    /\ \A i \in 1..3 : extractProfessionalRoles(cv, clock)[i].months < 12
    /\ \E i \in 1..3 :
        nowMonthIndexOf(clock) - extractProfessionalRoles(cv, clock)[i].endIndex >= 60
    /\ \E i \in DOMAIN features[1].redFlags.flags :
        features[1].redFlags.flags[i] = RedFlag("job_hopping", "medium", 5)

\* C16: year normalization.  A four-digit year is accepted only in
\* [1950, currentYear + 1]; a two-digit year yy maps to 2000 + yy if
\* yy <= currentYear % 100 + 1, else to 1900 + yy, and is then rejected
\* unless in [1950, currentYear + 1]; with current year 2025, '99 gives
\* 1999, '25 gives 2025 and '26 gives 2026.
C16_YearNormalization ==
    yearOut # None =>
        LET token == yearIn[1]
            currentYear == clock.year
            year == yearOut[1]
            mapped == IF token.value <= (currentYear % 100) + 1
                      THEN 2000 + token.value ELSE 1900 + token.value
            inRange(y) == 1950 <= y /\ y <= currentYear + 1
        IN  /\ token.digits = 4 =>
                /\ year # None => year = Some(token.value) /\ inRange(token.value)
                /\ (inRange(token.value) /\ token.value \div 100 \in {19, 20}) =>
                    year = Some(token.value)
            /\ token.digits = 2 =>
                /\ inRange(mapped) => year = Some(mapped)
                /\ ~inRange(mapped) => year = None
            /\ (token.digits = 2 /\ currentYear = 2025) =>
                /\ token.value = 99 => year = Some(1999)
                /\ token.value = 25 => year = Some(2025)
                /\ token.value = 26 => year = Some(2026)

\* C16 witness: in 2025 the token '26 is read as next year, 2026
C16_Witness ==
    /\ yearOut = Some(Some(2026))
    /\ yearIn = Some([digits |-> 2, value |-> 26])
    /\ clock.year = 2025

\* C17: yearsExperience equals the sum of the widths of the merged date
\* intervals of the professional (non-internship) roles, divided by 12,
\* clamped to [0, 50] and rounded to 0.1; months inside a role's
\* first-to-last span that no date interval of that role covers are not
\* counted.  (The merged intervals are those of the union of the date
\* intervals of all the professional roles, so that the months two roles
\* share count once.)
C17_YearsAreMergedDurations ==
    (features # None /\ extractRolesFromExperience(cv, clock) # <<>>) =>
        LET openers == {k \in DOMAIN cv : opensRole(cv[k], clock)}
            block(k) == SubSeq(cv, k, blockEnd(cv, k, clock))
            professional(k) ==
                ~isInternshipOrAcademicRoleText(roleTitle(cv, k) \o allWords(block(k), 1))
            dated(k) == extractDateIntervalsOfBlock(allDates(block(k), 1), clock)
            months == UNION {UNION {dated(k)[i].start..(dated(k)[i].end - 1) :
                                      i \in DOMAIN dated(k)} :
                               k \in {o \in openers : professional(o)}}
            total == Cardinality(months)
        IN  features[1].yearsExperience =
                IF total > 50 * 12 THEN Some(RInt(50))
                ELSE Some(Rat((20 * total + 12) \div 24, 10))

\* C18: when the role spec has no experienceRelevanceKeywords,
\* relevantExperience.relevantYears equals relevantExperience.totalYears for
\* every candidate, including the candidates whose professional roles
\* overlap in time.
C18_NoKeywordsRelevantIsTotal ==
    (features # None /\ roleSpec.experienceRelevanceKeywords = {}) =>
        features[1].relevantExperience.relevantYears
            = features[1].relevantExperience.totalYears

----------------------------------------------------------------------------
(* Claims about the end-to-end scenarios                                   *)

\* C19 as amended: scenario 1.  With now = (2025, 6), the candidate whose
\* only professional role is "2019 - present" has yearsExperience = 6.5
\* (78 months, the current month counted), seniority senior, and against
\* minYears = 5 an experience score of 0.92 (r = 1.3) with belowThreshold =
\* false.
C19_Scenario1 ==
    LET scenario == [title |-> <<"sr ", "software", "engineer", "acme", "led", "team">>,
                     dates |-> <<DateRange(0, 2019, 0, 0)>>]
    IN  (result # None /\ cv = <<scenario>> /\ clock = Clock(2025, 6)
         /\ roleSpec.minYearsExperience = RInt(5)) =>
            /\ features[1].yearsExperience = Some(<<13, 2>>)
            /\ features[1].seniority.level = "senior"
            /\ result[1].breakdown.experienceScore = <<23, 25>>
            /\ ~result[1].belowThreshold

\* C19 witness: the candidate of scenario 1 is scored, its must-have skill
\* matched through the alias and no threshold reason given
C19_Witness ==
    /\ result # None
    /\ Len(cv) = 1 /\ cv[1].title[1] = "sr " /\ cv[1].dates = <<DateRange(0, 2019, 0, 0)>>
    /\ roleSpec.experienceRelevanceKeywords = {}
    /\ features[1].mustHave[1].matched
    /\ result[1].thresholdReasons = <<>>
    /\ result[1].breakdown.relevantExperienceScore = RInt(1)

\* C19: scenario 1.  With now = (2025, 6), a candidate whose only
\* professional role is "2019 - present" has yearsExperience = 6.4,
\* seniority senior, and against minYears = 5 an experience score of 1.0
\* with belowThreshold = false.
C19_Scenario1AsStated ==
    LET scenario == [title |-> <<"sr ", "software", "engineer", "acme", "led", "team">>,
                     dates |-> <<DateRange(0, 2019, 0, 0)>>]
    IN  (result # None /\ cv = <<scenario>> /\ clock = Clock(2025, 6)
         /\ roleSpec.minYearsExperience = RInt(5)) =>
            /\ features[1].yearsExperience = Some(<<32, 5>>)
            /\ features[1].seniority.level = "senior"
            /\ result[1].breakdown.experienceScore = RInt(1)
            /\ ~result[1].belowThreshold

\* C20 as amended: scenario 3.  The candidate whose only seniority signal
\* is the junior title token (two "Junior Developer" roles 2023-2024 and
\* 2024-present, now = (2025, 6)) is classified junior with confidence
\* exactly 0.6; against a role with minYears = 5 the junior rule, which
\* needs a confidence strictly greater than 0.6, does not fire: the reason
\* "Junior-level candidate for senior role" is not given and, no hard
\* filter being set, the candidate is not below threshold.
C20_Scenario3 ==
    LET oneLine == [title |-> <<"junior", "developer", "junior", "developer">>,
                    dates |-> <<DateRange(0, 2023, 0, 2024), DateRange(0, 2024, 0, 0)>>]
        first == [title |-> <<"junior", "developer">>,
                  dates |-> <<DateRange(0, 2023, 0, 2024)>>]
        second == [title |-> <<"junior", "developer">>,
                   dates |-> <<DateRange(0, 2024, 0, 0)>>]
    IN  (result # None /\ cv \in {<<oneLine>>, <<first, second>>}
         /\ clock = Clock(2025, 6) /\ roleSpec.minYearsExperience = RInt(5)) =>
            /\ features[1].seniority.level = "junior"
            /\ features[1].seniority.confidence = <<3, 5>>
            /\ \A i \in 1..Len(result[1].thresholdReasons) :
                   result[1].thresholdReasons[i].rule # "juniorForSeniorRole"
            /\ ~result[1].belowThreshold

\* C20 witness: the candidate of scenario 3, two and a half years of
\* experience in two junior roles, is scored against the role of five years
C20_Witness ==
    /\ result # None
    /\ Len(cv) = 1 /\ Len(cv[1].dates) = 2 /\ cv[1].title[1] = "junior"
    /\ roleSpec.minYearsExperience = RInt(5)
    /\ features[1].yearsExperience = Some(<<5, 2>>)
    /\ features[1].seniority.level = "junior"

\* C20: scenario 3.  A candidate whose only seniority signal is the junior
\* title token (two "Junior Developer" roles 2023-2024 and 2024-present,
\* now = (2025, 6)) is classified junior with confidence strictly greater
\* than 0.6, and against a role with minYears = 5 is below threshold with
\* the reason "Junior-level candidate for senior role".
C20_Scenario3AsStated ==
    LET oneLine == [title |-> <<"junior", "developer", "junior", "developer">>,
                    dates |-> <<DateRange(0, 2023, 0, 2024), DateRange(0, 2024, 0, 0)>>]
        first == [title |-> <<"junior", "developer">>,
                  dates |-> <<DateRange(0, 2023, 0, 2024)>>]
        second == [title |-> <<"junior", "developer">>,
                   dates |-> <<DateRange(0, 2024, 0, 0)>>]
    IN  (result # None /\ cv \in {<<oneLine>>, <<first, second>>}
         /\ clock = Clock(2025, 6) /\ roleSpec.minYearsExperience = RInt(5)) =>
            /\ features[1].seniority.level = "junior"
            /\ RLt(<<3, 5>>, features[1].seniority.confidence)
            /\ result[1].belowThreshold
            /\ \E i \in 1..Len(result[1].thresholdReasons) :
                   result[1].thresholdReasons[i].rule = "juniorForSeniorRole"

\* C21 as amended: scenario 5.  With now = (2025, 6), four professional
\* roles dated by the year ranges 2015-2016, 2018-2019, 2020-2021 and
\* 2023-present give yearsExperience = 5.5 and no job_hopping flag: each
\* closed stint counts exactly 12 months, which is not shorter than 12, and
\* only one of them ends within the last 60 months.
C21_Scenario5 ==
    (features # None /\ Len(cv) = 4
     /\ \A i \in 1..4 : cv[i].title = <<"engineer">> /\ Len(cv[i].dates) = 1
     /\ <<cv[1].dates[1], cv[2].dates[1], cv[3].dates[1], cv[4].dates[1]>>
            = <<DateRange(0, 2015, 0, 2016), DateRange(0, 2018, 0, 2019),
                DateRange(0, 2020, 0, 2021), DateRange(0, 2023, 0, 0)>>
     /\ clock = Clock(2025, 6)) =>
        /\ features[1].yearsExperience = Some(<<11, 2>>)
        /\ \A i \in DOMAIN features[1].redFlags.flags :
               features[1].redFlags.flags[i].type # "job_hopping"

\* C21 witness: the four roles of scenario 5 are analysed, and the two
\* two-year gaps between them are flagged
C21_Witness ==
    /\ features # None
    /\ Len(cv) = 4 /\ cv[1].dates = <<DateRange(0, 2015, 0, 2016)>>
    /\ cv[4].dates = <<DateRange(0, 2023, 0, 0)>>
    /\ \E i \in DOMAIN features[1].redFlags.flags :
           features[1].redFlags.flags[i].type = "employment_gap"

\* C21: scenario 5.  With now = (2025, 6), professional roles dated by the
\* year ranges 2015-2016, 2018-2019, 2020-2021 and 2023-present give
\* yearsExperience of about 5.5 and a high-severity job_hopping flag (three
\* stints counted as shorter than 12 months within the last 60 months).
C21_Scenario5AsStated ==
    (features # None /\ Len(cv) = 4
     /\ \A i \in 1..4 : cv[i].title = <<"engineer">> /\ Len(cv[i].dates) = 1
     /\ <<cv[1].dates[1], cv[2].dates[1], cv[3].dates[1], cv[4].dates[1]>>
            = <<DateRange(0, 2015, 0, 2016), DateRange(0, 2018, 0, 2019),
                DateRange(0, 2020, 0, 2021), DateRange(0, 2023, 0, 0)>>
     /\ clock = Clock(2025, 6)) =>
        /\ features[1].yearsExperience # None
        /\ RLe(<<27, 5>>, features[1].yearsExperience[1])
        /\ RLe(features[1].yearsExperience[1], <<28, 5>>)
        /\ \E i \in DOMAIN features[1].redFlags.flags :
               /\ features[1].redFlags.flags[i].type = "job_hopping"
               /\ features[1].redFlags.flags[i].severity = "high"

----------------------------------------------------------------------------
(* Claims about edge cases and component scores                            *)

\* C22: for every normalized text shorter than 200 characters,
\* extractFeatures emits the low-text warning and parseQuality.overall is
\* low, whatever the number of parsed dates, section detection and skill
\* match ratio.
C22_TinyTextIsLow ==
    (qualityOut # None /\ qualityIn[1].textLength < 200) =>
        /\ Len(qualityOut[1].warnings) > 0
        /\ qualityOut[1].warnings[1] =
               "Low extracted text. OCR fallback may be needed, scoring may be less accurate."
        /\ qualityOut[1].parseQuality.overall = "low"

\* C23: every breakdown component score (must-have, nice-to-have,
\* experience, relevant experience, skill depth, seniority, recency,
\* project scale, education) lies in [0, 1] for every feature bundle whose
\* confidence, depthScore, recencyScore, scaleScore and educationScore are
\* in [0, 1] and whose years are >= 0.
C23_ComponentsInUnitInterval ==
    scoreOut # None =>
        \A k \in {"mustHaveSkillsScore", "niceToHaveSkillsScore", "experienceScore",
                  "relevantExperienceScore", "skillDepthScore", "seniorityScore",
                  "recencyScore", "projectScaleScore", "educationScore"} :
            /\ RLe(RInt(0), scoreOut[1].breakdown[k])
            /\ RLe(scoreOut[1].breakdown[k], RInt(1))

\* C23 witness: a bundle scored with components at both ends of the
\* interval, the recency component clamped from above
C23_Witness ==
    /\ scoreOut # None
    /\ scoreIn[1].recencyAnalysis.recencyScore = RInt(1)
    /\ scoreIn[1].recencyAnalysis.careerTrajectory.trajectory = "ascending"
    /\ scoreIn[1].recencyAnalysis.skillRecency = <<>>
    /\ scoreOut[1].breakdown.recencyScore = RInt(1)
    /\ scoreOut[1].breakdown.experienceScore = RInt(0)
    /\ scoreOut[1].breakdown.projectScaleScore = RInt(1)

\* C24: the recency component used by the scorer is the feature bundle's
\* recencyScore passed through unchanged, so a descending career trajectory
\* lowers the recency component by exactly 0.15 relative to the average
\* skill multiplier (the 0.15 analyzeRecency already took off the
\* recencyScore of the bundle), not more.
C24_RecencyPassedThrough ==
    scoreOut # None =>
        scoreOut[1].breakdown.recencyScore = scoreIn[1].recencyAnalysis.recencyScore

\* C28: the experience weight is applied to relevantExperienceScore only:
\* two scoreCandidate calls that differ only in candidateYearsExperience
\* (same relevantExperience) yield the same rawScore and overallScore,
\* differing only in breakdown.experienceScore.
C28_YearsOnlyMoveExperienceScore ==
    [][(scoreOut # None /\ scoreOut' # None
        /\ scoreIn' = Some([scoreIn[1] EXCEPT !.candidateYearsExperience =
                                scoreIn'[1].candidateYearsExperience]))
       => /\ scoreOut'[1].rawScore = scoreOut[1].rawScore
          /\ scoreOut'[1].overallScore = scoreOut[1].overallScore
          /\ scoreOut' = Some([scoreOut[1] EXCEPT !.breakdown.experienceScore =
                                   scoreOut'[1].breakdown.experienceScore])]_vars

\* C28 witness: a bundle of eight years, none of them known to be
\* relevant, scored: the two experience scores differ
C28_Witness ==
    /\ scoreOut # None
    /\ scoreIn[1].candidateYearsExperience = Some(RInt(8))
    /\ scoreIn[1].minYearsExperience = RInt(5)
    /\ scoreIn[1].relevantExperience.relevantYears = None
    /\ scoreOut[1].breakdown.experienceScore # scoreOut[1].breakdown.relevantExperienceScore

\* C27: scoreExperience is monotone non-decreasing in candidate years: for
\* every minYearsExperience > 0 and candidate years a <= b (in 0.1 steps up
\* to 50), scoreExperience(a, min) <= scoreExperience(b, min).  (Checked
\* from each a to the next step, a + 0.1.)
C27_ExperienceMonotone ==
    [][(/\ expOut # None /\ expOut' # None
        /\ RLt(RInt(0), expIn[1].minYearsExperience)
        /\ expIn[1].candidateYears # None)
       => RLe(expOut[1], expOut'[1])]_vars

\* C25 as amended: with net = seniorScore - juniorScore, level is senior if
\* net >= 3, mid if net >= 1, junior if net <= -1, else unknown; the
\* confidence is min(0.5 + 0.1 net, 0.95) for senior, 0.5 + 0.1 net for mid,
\* min(0.5 + 0.1 |net|, 0.9) for junior, and 0.3 for unknown (net = 0).
C25_SeniorityLevels ==
    seniorityOut # None =>
        LET net == seniorityIn[1].seniorScore - seniorityIn[1].juniorScore
            level == seniorityOut[1].level
            confidence == seniorityOut[1].confidence
            tenths(n) == Rat(5 + n, 10)
        IN  /\ level = (IF net >= 3 THEN "senior" ELSE IF net >= 1 THEN "mid"
                        ELSE IF net <= -1 THEN "junior" ELSE "unknown")
            /\ net >= 3 => confidence = RMin(tenths(net), Rat(95, 100))
            /\ net \in 1..2 => confidence = tenths(net)
            /\ net <= -1 => confidence = RMin(tenths(-net), Rat(9, 10))
            /\ net = 0 => confidence = Rat(3, 10)

\* C25 witness: five junior signals more than senior ones, the confidence
\* stopped at 0.9
C25_Witness ==
    /\ seniorityOut # None
    /\ seniorityIn[1].juniorScore - seniorityIn[1].seniorScore = 5
    /\ seniorityOut[1] = [level |-> "junior", confidence |-> <<9, 10>>]

\* C25: with net = seniorScore - juniorScore, level is senior if net >= 3,
\* mid if net >= 1, junior if net <= -1, else unknown; and for every net the
\* confidence equals 0.5 + 0.1 x |net| clamped to [0.3, 0.95].
C25_SeniorityAsStated ==
    seniorityOut # None =>
        LET net == seniorityIn[1].seniorScore - seniorityIn[1].juniorScore
        IN  /\ seniorityOut[1].level =
                   (IF net >= 3 THEN "senior" ELSE IF net >= 1 THEN "mid"
                    ELSE IF net <= -1 THEN "junior" ELSE "unknown")
            /\ seniorityOut[1].confidence =
                   RMax(Rat(3, 10), RMin(Rat(5 + Abs(net), 10), Rat(95, 100)))

\* C26: every extracted interval whose width is 600 months (50 years) or
\* more is dropped before merging; no interval of width >= 600 is ever
\* passed to mergeIntervals or counted in a duration.
C26_FiftyYearsDropped ==
    pushOut # None =>
        /\ \A i \in DOMAIN pushOut[1].out :
               pushOut[1].out[i].end - pushOut[1].out[i].start < 600
        /\ pushOut[1].months < 600

----------------------------------------------------------------------------
(* Claims about the ranking response and the text cache                    *)

\* C29: in the ranking response every candidate with belowThreshold = false
\* precedes every candidate with belowThreshold = true, within each group
\* overallScore is non-increasing, and below-threshold candidates are still
\* returned (no analysed candidate is dropped by the sort or by a hard
\* filter).
C29_RankingOrder ==
    response # None =>
        LET ranked == response[1]
            analysed == {k \in 1..Len(scanPdfs) :
                            /\ scanPdfs[k].buffer # None /\ scanPdfs[k].text
                            /\ \A j \in 1..(k - 1) : scanPdfs[j].buffer # scanPdfs[k].buffer}
        IN  /\ \A i, j \in DOMAIN ranked :
                   i < j =>
                       /\ ~(ranked[i].score.belowThreshold /\ ~ranked[j].score.belowThreshold)
                       /\ ranked[i].score.belowThreshold = ranked[j].score.belowThreshold
                              => ranked[i].score.overallScore >= ranked[j].score.overallScore
            /\ Len(ranked) = Cardinality(analysed)
            /\ \A k \in analysed :
                   \E i \in DOMAIN ranked :
                       ranked[i] = [candidateId |-> scanPdfs[k].buffer[1],
                                    score |-> scanPdfs[k].score]

\* C29 witness: the candidate analysed first, below threshold with the
\* better score, is returned last, after a candidate above threshold
C29_Witness ==
    /\ response # None
    /\ Len(response[1]) = 2
    /\ response[1][2].score.belowThreshold
    /\ ~response[1][1].score.belowThreshold
    /\ response[1][2].score.overallScore > response[1][1].score.overallScore
    /\ candidates[1] = response[1][2]

\* C30: once a candidate's cache record has extractionMethod "ocr", or has
\* at least 200 normalized characters and is not garbled, every later
\* request for that candidate returns the cached text without invoking PDF
\* extraction or OCR; a record obtained without OCR that is shorter than 200
\* characters or garbled is bypassed on every request, re-extracted and
\* rewritten.
C30_CacheReuse ==
    [][cacheRecord # None =>
        LET record == cacheRecord[1]
            text == record.normalizedText
        IN  /\ (\/ record.extractionMethod = "ocr"
                \/ record.normalizedTextChars >= 200 /\ ~text.garbled)
               => /\ lastRequest'[1].cacheHit
                  /\ ~lastRequest'[1].extractPdfText /\ ~lastRequest'[1].ocr
            /\ (/\ record.extractionMethod # "ocr"
                /\ record.normalizedTextChars < 200 \/ text.garbled)
               => /\ lastRequest'[1].bypassed /\ lastRequest'[1].extractPdfText
                  /\ cacheRecord'[1].schemaVersion = 3
                  /\ cacheRecord'[1].normalizedText = lastRequest'[1].normalizedText]_vars

====
